---- MODULE Spec2Model ----
(***************************************************************************)
(* Verification model of pymbus: the M-Bus / wireless M-Bus telegram       *)
(* decoder (frame parser, codec primitives, telegram facade, security      *)
(* layer).  Bytes are integers 0..255, byte strings are sequences of       *)
(* bytes, Python str values are sequences of one-character strings.        *)
(***************************************************************************)
EXTENDS Integers, Sequences, FiniteSets, TLC

VARIABLES
    mfctCode,    \* codec: 16-bit manufacturer code handed to decode_manufacturer
    mfctText,    \* codec: the str handed to / returned by the manufacturer codec
    mfctEnc,     \* codec: outcome of encode_manufacturer
    codecPc,     \* codec: position of the codec caller
    crcAcc,      \* calculate_crc: the accumulator `crc`
    crcLen,      \* calculate_crc: number of bytes of `data` consumed so far
    crcPc,       \* calculate_crc: "feeding" | "closed" (own CRC byte appended)
    frameIn,     \* MBusFrame.parse: the argument `data`
    frameOut,    \* MBusFrame.parse: the returned frame, or None
    framePc,     \* MBusFrame.parse: "input" | "parsed"
    tgInput,     \* Telegram.__init__: the argument raw_data (str or bytes)
    raw_data,    \* Telegram.raw_data
    header,      \* Telegram.header (None or a TelegramHeader)
    tgPc,        \* Telegram: "new" | "constructed"
    lastOp,      \* Telegram: the last operation applied to the object
    decryptRet,  \* Telegram.decrypt: its last return value
    nDecrypts,   \* Telegram: number of decrypt calls made on the object
    ivOut,       \* generate_iv: the IV built by the last decrypt_aes_cbc call
    decryptOk,   \* Telegram: some decrypt call replaced the payload by plaintext
    parsed_data, \* Telegram.parsed_data
    drivers,     \* AutoDriver.drivers, in registration order
    callOut,     \* return value of the last parse_data / driver / analysis call
    prData,      \* parse_data_records: the argument `data`
    prI,         \* parse_data_records: the cursor `i` at the head of the while loop
    prRecords,   \* parse_data_records: the list `records`
    prPc,        \* parse_data_records: "loop" | "returned"
    records1,    \* _compare_data: the records extracted from telegram1
    records2,    \* _compare_data: the records extracted from telegram2
    cmpEncrypted, \* _compare_data: << header.is_encrypted of telegram1, of telegram2 >>
    cmpI,        \* _compare_data: records of the running for loop already visited
    same_fields, \* _compare_data: the list same_fields
    different_fields, \* _compare_data: the list different_fields
    only_in_first,    \* _compare_data: the list only_in_first
    only_in_second,   \* _compare_data: the list only_in_second
    cmpPc,       \* _compare_data: "start" | "first" | "second" | "returned" | "refused"
    known_keys,  \* KeyDiscovery.known_keys: the dict, as its set of items
    akKey,       \* KeyDiscovery.add_key: the argument `key` of the last call
    akRet,       \* KeyDiscovery.add_key: the return value of the last call
    pvDif,       \* MBusDataRecord: dif
    pvVif,       \* MBusDataRecord: vif
    pvValue,     \* MBusDataRecord: value
    parsed_value, \* MBusDataRecord: parsed_value
    pvPc,        \* MBusDataRecord: "new" | "parsed"
    hsTarget,    \* which object the frames go to: "MeterInfo" | "AccessPoint"
    now,         \* the last value read from the clock (datetime.now())
    nCalls,      \* MeterInfo.update_from_telegram calls made so far
    hsFrame,     \* the telegram_data of the last call
    arrivals,    \* the frames the object accepted so far, in arrival order
    miMeterId,   \* MeterInfo.meter_id
    miHeader,    \* MeterInfo: manufacturer, type_code, version, is_encrypted
    last_seen,   \* MeterInfo.last_seen
    telegram_count,        \* MeterInfo.telegram_count
    transmission_interval, \* MeterInfo.transmission_interval (None or a fraction)
    last_telegrams,        \* MeterInfo.last_telegrams
    miRecords,   \* MeterInfo.data_records
    apMeters,    \* TelegramAccessPoint.meters: the registered ids
    apLast,      \* TelegramAccessPoint.last_telegrams, as its set of items
    telegram_history,      \* TelegramAccessPoint.telegram_history of the registered meter
    apAnalysis,  \* TelegramAccessPoint.process_telegram: the analysis of the last call
    apRet,       \* TelegramAccessPoint.process_telegram: "None" | "result"
    meter_keys,  \* KeyDiscovery.meter_keys, as its set of items
    key_matches, \* KeyDiscovery.key_matches, as its set of items
    mtDriver,    \* Meter.driver
    mtId,        \* Meter.id
    mtKey,       \* Meter.key
    mtNow,       \* the clock Meter.process_telegram reads
    mtCalls,     \* Meter.process_telegram calls made so far
    mtFrame,     \* the telegram_data of the last Meter.process_telegram call
    mtRet,       \* what that call returned
    last_reading,  \* Meter.last_reading
    last_telegram, \* Meter.last_telegram
    last_update    \* Meter.last_update

vars == << mfctCode, mfctText, mfctEnc, codecPc, crcAcc, crcLen, crcPc,
           frameIn, frameOut, framePc,
           tgInput, raw_data, header, tgPc, lastOp, decryptRet, nDecrypts, ivOut,
           decryptOk, parsed_data, drivers, callOut,
           prData, prI, prRecords, prPc,
           records1, records2, cmpEncrypted, cmpI, same_fields, different_fields,
           only_in_first, only_in_second, cmpPc,
           known_keys, akKey, akRet,
           pvDif, pvVif, pvValue, parsed_value, pvPc,
           hsTarget, now, nCalls, hsFrame, arrivals,
           miMeterId, miHeader, last_seen, telegram_count, transmission_interval,
           last_telegrams, miRecords,
           apMeters, apLast, telegram_history, apAnalysis, apRet,
           meter_keys, key_matches,
           mtDriver, mtId, mtKey, mtNow, mtCalls, mtFrame, mtRet,
           last_reading, last_telegram, last_update >>

codecVars == << mfctCode, mfctText, mfctEnc, codecPc >>
crcVars   == << crcAcc, crcLen, crcPc >>
frameVars == << frameIn, frameOut, framePc >>
tgVars    == << tgInput, raw_data, header, tgPc, lastOp, decryptRet, nDecrypts, ivOut,
                decryptOk, parsed_data, drivers, callOut >>
recVars   == << prData, prI, prRecords, prPc >>

cmpVars   == << records1, records2, cmpEncrypted, cmpI, same_fields, different_fields,
                only_in_first, only_in_second, cmpPc >>
keyVars   == << known_keys, akKey, akRet >>

\* the tools built on the parsers
valVars   == << pvDif, pvVif, pvValue, parsed_value, pvPc >>

\* the record value decoder and the meter bookkeeping
feedVars  == << hsTarget, now, nCalls, hsFrame, arrivals >>
miVars    == << miMeterId, miHeader, last_seen, telegram_count, transmission_interval,
                last_telegrams, miRecords >>
apVars    == << apMeters, apLast, telegram_history, apAnalysis, apRet >>
histVars  == << feedVars, miVars, apVars >>

matchVars == << meter_keys, key_matches >>
meterVars == << mtDriver, mtId, mtKey, mtNow, mtCalls, mtFrame, mtRet,
                last_reading, last_telegram, last_update >>
bookVars  == << matchVars, meterVars >>

lateVars  == << valVars, histVars, bookVars >>

toolVars  == << cmpVars, keyVars, lateVars >>

\* the components added to the four above
extVars   == << recVars, toolVars >>

\* Python's None where a str or bytes field may be unset
None == "None"

\* a call that returned None in place of an object
NoObject == [isNone |-> TRUE]

(***************************************************************************)
(* Python integer operators.  Python integers are unbounded and the        *)
(* bitwise operators act on the infinite two's complement form, which is   *)
(* what the floor division and the non-negative remainder below compute.   *)
(***************************************************************************)
RECURSIVE BitAnd(_, _)
BitAnd(a, b) ==
    IF a = 0 \/ b = 0 THEN 0
    ELSE IF a = -1 THEN b
    ELSE IF b = -1 THEN a
    ELSE ((a % 2) * (b % 2)) + 2 * BitAnd(a \div 2, b \div 2)

RECURSIVE BitOr(_, _)
BitOr(a, b) ==
    IF a = 0 THEN b
    ELSE IF b = 0 THEN a
    ELSE IF a = -1 \/ b = -1 THEN -1
    ELSE (IF (a % 2) + (b % 2) > 0 THEN 1 ELSE 0) + 2 * BitOr(a \div 2, b \div 2)

RECURSIVE BitXor(_, _)
BitXor(a, b) ==
    IF a = 0 THEN b
    ELSE IF b = 0 THEN a
    ELSE (((a % 2) + (b % 2)) % 2) + 2 * BitXor(a \div 2, b \div 2)

RECURSIVE Pow2(_)
Pow2(n) == IF n = 0 THEN 1 ELSE 2 * Pow2(n - 1)

ShiftLeft(a, n)  == a * Pow2(n)
ShiftRight(a, n) == a \div Pow2(n)

(***************************************************************************)
(* Characters: chr / ord over printable ASCII (code points 32..126).  The  *)
(* grave accent (96) cannot be written in a TLA+ string and is "GRAVE".    *)
(***************************************************************************)
AsciiTable ==
    << " ", "!", "\"", "#", "$", "%", "&", "'", "(", ")", "*", "+", ",", "-",
       ".", "/", "0", "1", "2", "3", "4", "5", "6", "7", "8", "9", ":", ";",
       "<", "=", ">", "?", "@", "A", "B", "C", "D", "E", "F", "G", "H", "I",
       "J", "K", "L", "M", "N", "O", "P", "Q", "R", "S", "T", "U", "V", "W",
       "X", "Y", "Z", "[", "\\", "]", "^", "_", "GRAVE", "a", "b", "c", "d", "e",
       "f", "g", "h", "i", "j", "k", "l", "m", "n", "o", "p", "q", "r", "s",
       "t", "u", "v", "w", "x", "y", "z", "{", "|", "}", "~" >>

Chr(n) == AsciiTable[n - 31]
Ord(c) == CHOOSE n \in 32..126 : AsciiTable[n - 31] = c

(***************************************************************************)
(* Sequence helpers (slicing as Python does it: out-of-range is clipped).  *)
(***************************************************************************)
Min(a, b) == IF a < b THEN a ELSE b
Max(a, b) == IF a > b THEN a ELSE b

\* data[lo:hi] with 0-based lo, hi >= 0
Slice(s, lo, hi) ==
    LET h == Min(hi, Len(s))
    IN  IF lo >= h THEN << >> ELSE [i \in 1..(h - lo) |-> s[lo + i]]

\* data[lo:]
SliceFrom(s, lo) == Slice(s, lo, Len(s))

\* data[i] with 0-based i
At(s, i) == s[i + 1]

Reversed(s) == [i \in 1..Len(s) |-> s[Len(s) + 1 - i]]

(***************************************************************************)
(* MBusProtocol.decode_manufacturer / encode_manufacturer                  *)
(***************************************************************************)
decode_manufacturer(code) ==
    LET char1 == BitAnd(ShiftRight(code, 10), 31) + 64
        char2 == BitAnd(ShiftRight(code, 5), 31) + 64
        char3 == BitAnd(code, 31) + 64
    IN  << Chr(char1), Chr(char2), Chr(char3) >>

\* a mis-packed encoder: second letter shifted by 4 instead of 5
encode_manufacturer_shift4(code) ==
    IF Len(code) # 3 THEN [ok |-> FALSE, val |-> 0]
    ELSE [ok  |-> TRUE,
          val |-> BitOr(BitOr(ShiftLeft(Ord(code[1]) - 64, 10),
                              ShiftLeft(Ord(code[2]) - 64, 4)),
                        Ord(code[3]) - 64)]

\* ok = FALSE stands for the raised ValueError
encode_manufacturer(code) ==
    IF Len(code) # 3 THEN [ok |-> FALSE, val |-> 0]
    ELSE LET c1 == Ord(code[1]) - 64
             c2 == Ord(code[2]) - 64
             c3 == Ord(code[3]) - 64
         IN  [ok  |-> TRUE,
              val |-> BitOr(BitOr(ShiftLeft(c1, 10), ShiftLeft(c2, 5)), c3)]

(***************************************************************************)
(* MBusProtocol.calculate_crc / check_crc                                  *)
(***************************************************************************)
\* the inner loop `for _ in range(8)`
RECURSIVE CrcRounds(_, _)
CrcRounds(crc, n) ==
    IF n = 0 THEN crc
    ELSE CrcRounds(IF BitAnd(crc, 1) # 0
                   THEN BitXor(ShiftRight(crc, 1), 140)
                   ELSE ShiftRight(crc, 1),
                   n - 1)

\* a slip in the body of the outer loop: `crc |= b` for `crc ^= b`
CrcByteOr(crc, b) ==
    LET body[c \in Int, x \in Int] == CrcRounds(BitOr(c, x), 8)
    IN  body[crc, b]

\* one iteration of the outer loop `for b in data` (a function application,
\* so that the accumulator is a value before the next byte is taken)
CrcByte(crc, b) ==
    LET body[c \in Int, x \in Int] == CrcRounds(BitXor(c, x), 8)
    IN  body[crc, b]

RECURSIVE CrcFrom(_, _)
CrcFrom(crc, data) ==
    IF data = << >> THEN crc ELSE CrcFrom(CrcByte(crc, Head(data)), Tail(data))

calculate_crc(data) == CrcFrom(0, data)

check_crc(data) ==
    IF Len(data) < 3 THEN FALSE
    ELSE calculate_crc(Slice(data, 0, Len(data) - 1)) = At(data, Len(data) - 1)

(***************************************************************************)
(* Hex rendering and parsing: f'{b:02x}' and binascii.unhexlify            *)
(***************************************************************************)
HexLower == << "0", "1", "2", "3", "4", "5", "6", "7",
               "8", "9", "a", "b", "c", "d", "e", "f" >>
HexUpper == << "0", "1", "2", "3", "4", "5", "6", "7",
               "8", "9", "A", "B", "C", "D", "E", "F" >>

\* f'{b:02x}'
Hex02x(b) == << HexLower[(b \div 16) + 1], HexLower[(b % 16) + 1] >>

RECURSIVE JoinHex(_)
JoinHex(bs) == IF bs = << >> THEN << >> ELSE Hex02x(Head(bs)) \o JoinHex(Tail(bs))

IsHexDigit(c) == \E i \in 1..16 : HexLower[i] = c \/ HexUpper[i] = c
HexVal(c)     == (CHOOSE i \in 1..16 : HexLower[i] = c \/ HexUpper[i] = c) - 1

\* str.replace(" ", "")
StripSpaces(str) == SelectSeq(str, LAMBDA c : c # " ")

\* binascii.unhexlify: ok = FALSE stands for the raised binascii.Error
unhexlify(str) ==
    IF Len(str) % 2 # 0 \/ \E i \in 1..Len(str) : ~IsHexDigit(str[i])
    THEN [ok |-> FALSE, val |-> << >>]
    ELSE [ok  |-> TRUE,
          val |-> [i \in 1..(Len(str) \div 2) |->
                      16 * HexVal(str[2 * i - 1]) + HexVal(str[2 * i])]]

\* ''.join(f'{b:02x}' for b in reversed(id_bytes))
ReversedHex(id_bytes) == JoinHex(Reversed(id_bytes))

(***************************************************************************)
(* MBusFrame and MBusFrame.parse                                           *)
(***************************************************************************)
SINGLE_CHAR == 0
SHORT       == 1
CONTROL     == 2
LONG        == 3
WMBUS_APL   == 4

\* MBusFrame.__init__
NewFrame ==
    [ isNone |-> FALSE, frame_type |-> LONG, length |-> 0, control |-> 0,
      address |-> 0, control_information |-> 0, data |-> << >>, checksum |-> 0,
      manufacturer |-> None, identification |-> None, version |-> None,
      device_type |-> None ]

ParseShort(data) ==
    IF ~check_crc(Slice(data, 0, 4)) THEN NoObject
    ELSE [ NewFrame EXCEPT !.frame_type = SHORT, !.control = At(data, 1),
                           !.address = At(data, 2), !.checksum = At(data, 3) ]

ParseLong(data) ==
    IF Len(data) < 9 THEN NoObject
    ELSE LET length1 == At(data, 1)
             length2 == At(data, 2)
         IN  IF length1 # length2 THEN NoObject
             ELSE IF At(data, 3) # 104 THEN NoObject
             ELSE IF Len(data) < length1 + 6 THEN NoObject
             ELSE IF ~check_crc(Slice(data, 4, 7 + length1 - 2)) THEN NoObject
             ELSE [ NewFrame EXCEPT
                      !.length = length1, !.control = At(data, 4),
                      !.address = At(data, 5), !.control_information = At(data, 6),
                      !.data = Slice(data, 7, 7 + length1 - 3),
                      !.checksum = At(data, 7 + length1 - 3),
                      !.frame_type = IF length1 = 3 THEN CONTROL ELSE LONG ]

ParseWireless(data) ==
    IF Len(data) < 10 THEN NoObject
    ELSE [ NewFrame EXCEPT
             !.frame_type = WMBUS_APL,
             !.length = At(data, 0),
             !.control = At(data, 1),
             !.manufacturer =
                 decode_manufacturer(BitOr(ShiftLeft(At(data, 3), 8), At(data, 2))),
             !.identification = ReversedHex(Slice(data, 4, 8)),
             !.version = At(data, 8),
             !.device_type = At(data, 9),
             !.control_information = IF Len(data) > 10 THEN At(data, 10) ELSE 0,
             !.data = IF Len(data) > 11 THEN SliceFrom(data, 11) ELSE << >> ]

MBusFrameParse(data) ==
    IF Len(data) < 1 THEN NoObject
    ELSE IF Len(data) = 1 /\ At(data, 0) = 229
         THEN [ NewFrame EXCEPT !.frame_type = SINGLE_CHAR ]
    ELSE IF Len(data) < 5 THEN NoObject
    ELSE IF At(data, 0) = 16 THEN ParseShort(data)
    ELSE IF At(data, 0) = 104 THEN ParseLong(data)
    ELSE IF At(data, 0) >= 68 /\ At(data, 0) <= 79 THEN ParseWireless(data)
    ELSE NoObject

(***************************************************************************)
(* Security layer (utils/encryption.py).  AES itself is PyCryptodome, not  *)
(* code of the repository: its block transformation is represented by a   *)
(* keyed bijection on 16-byte blocks (byte-wise addition of the key); the  *)
(* CBC chaining, the padding rules and the cipher object's running IV are  *)
(* modelled as the library performs them.                                  *)
(***************************************************************************)
BlockSize == 16

AesEncryptBlockByte(k, b) == (b + k) % 256
AesDecryptBlockByte(k, b) == (b + 256 - k) % 256

\* generate_iv
generate_iv(manufacturer, meter_id) ==
    LET m3      == Slice(manufacturer, 0, 3)
        parsed  == unhexlify(StripSpaces(meter_id))
        id_part == IF parsed.ok
                   THEN Slice(parsed.val, 0, 8)
                   ELSE [i \in 1..Min(8, Len(meter_id)) |-> Ord(meter_id[i])]
    IN  [i \in 1..16 |->
            IF i <= Len(m3) THEN Ord(m3[i])
            ELSE IF i > 3 /\ i - 3 <= Len(id_part) THEN id_part[i - 3]
            ELSE 0]

\* cipher.decrypt(data) of a CBC cipher object whose running IV is `iv`:
\* ok = FALSE is the ValueError for a length that is no multiple of 16;
\* next is the running IV the object holds afterwards
CbcDecrypt(key_bytes, iv, data) ==
    IF Len(data) % BlockSize # 0
    THEN [ok |-> FALSE, out |-> << >>, next |-> iv]
    ELSE [ok   |-> TRUE,
          out  |-> [i \in 1..Len(data) |->
                      BitXor(AesDecryptBlockByte(key_bytes[((i - 1) % BlockSize) + 1], data[i]),
                             IF i <= BlockSize THEN iv[i] ELSE data[i - BlockSize])],
          next |-> IF Len(data) = 0 THEN iv
                   ELSE Slice(data, Len(data) - BlockSize, Len(data))]

\* cipher.encrypt(data) of a fresh CBC cipher object (data a multiple of 16)
RECURSIVE CbcEncrypt(_, _, _)
CbcEncrypt(key_bytes, iv, data) ==
    IF Len(data) = 0 THEN << >>
    ELSE LET block == [i \in 1..BlockSize |->
                          AesEncryptBlockByte(key_bytes[i], BitXor(data[i], iv[i]))]
         IN  block \o CbcEncrypt(key_bytes, block, SliceFrom(data, BlockSize))

\* Crypto.Util.Padding.pad / unpad (pkcs7)
Pad(data) ==
    LET n == BlockSize - (Len(data) % BlockSize)
    IN  data \o [i \in 1..n |-> n]

Unpad(padded) ==
    LET len == Len(padded)
        n   == IF len = 0 THEN 0 ELSE padded[len]
    IN  IF len = 0 \/ len % BlockSize # 0 THEN [ok |-> FALSE, val |-> << >>]
        ELSE IF n < 1 \/ n > Min(BlockSize, len) THEN [ok |-> FALSE, val |-> << >>]
        ELSE IF \E i \in (len - n + 1)..len : padded[i] # n
             THEN [ok |-> FALSE, val |-> << >>]
        ELSE [ok |-> TRUE, val |-> Slice(padded, 0, len - n)]

\* the key argument as bytes: ok = FALSE when unhexlify raises or the
\* length is not 16
KeyBytes(key) ==
    LET parsed == unhexlify(StripSpaces(key))
    IN  IF parsed.ok /\ Len(parsed.val) = 16 THEN parsed
        ELSE [ok |-> FALSE, val |-> << >>]

\* decrypt_aes_cbc: ok = FALSE stands for the raised ValueError
decrypt_aes_cbc(data, key, manufacturer, meter_id, crypto_available) ==
    IF ~crypto_available \/ key = << >> \/ ~KeyBytes(key).ok
    THEN [ok |-> FALSE, val |-> << >>]
    ELSE LET key_bytes == KeyBytes(key).val
             iv        == generate_iv(manufacturer, meter_id)
             first     == CbcDecrypt(key_bytes, iv, data)
             unpadded  == Unpad(first.out)
         IN  IF ~first.ok THEN [ok |-> FALSE, val |-> << >>]
             ELSE IF unpadded.ok THEN [ok |-> TRUE, val |-> unpadded.val]
             ELSE [ok |-> TRUE, val |-> CbcDecrypt(key_bytes, first.next, data).out]

\* encrypt_aes_cbc (valid key, library present)
encrypt_aes_cbc(data, key, manufacturer, meter_id) ==
    CbcEncrypt(KeyBytes(key).val, generate_iv(manufacturer, meter_id), Pad(data))

(***************************************************************************)
(* TelegramHeader and Telegram (telegram.py)                               *)
(***************************************************************************)
TelegramHeader(length, control, manufacturer, meter_id, version, meter_type) ==
    [ isNone |-> FALSE, length |-> length, control |-> control,
      manufacturer |-> manufacturer, meter_id |-> meter_id,
      version |-> version, meter_type |-> meter_type,
      is_encrypted |-> BitAnd(control, 5) # 0 ]

\* Telegram._decode_manufacturer
TelegramDecodeManufacturer(code) ==
    LET char1 == BitAnd(ShiftRight(code, 10), 31) + 64
        char2 == BitAnd(ShiftRight(code, 5), 31) + 64
        char3 == BitAnd(code, 31) + 64
    IN  << Chr(char1), Chr(char2), Chr(char3) >>

\* struct.unpack("<H", b)[0]
UnpackLE16(b) == b[1] + 256 * b[2]

\* a header parser that reads the M-field big-endian
ParseHeaderBigEndian(raw) ==
    IF Len(raw) < 10 THEN NoObject
    ELSE TelegramHeader(At(raw, 0), At(raw, 1),
                        TelegramDecodeManufacturer(256 * At(raw, 2) + At(raw, 3)),
                        ReversedHex(Slice(raw, 4, 8)), At(raw, 8), At(raw, 9))

\* a header parser that accepts frames one byte too short
ParseHeaderMin9(raw) ==
    IF Len(raw) < 9 THEN NoObject
    ELSE TelegramHeader(At(raw, 0), At(raw, 1),
                        TelegramDecodeManufacturer(UnpackLE16(Slice(raw, 2, 4))),
                        ReversedHex(Slice(raw, 4, 8)), At(raw, 8),
                        IF Len(raw) > 9 THEN At(raw, 9) ELSE 0)

\* Telegram._parse_header: the header it stores (None when it returns early)
ParseHeader(raw) ==
    IF Len(raw) < 10 THEN NoObject
    ELSE TelegramHeader(At(raw, 0), At(raw, 1),
                        TelegramDecodeManufacturer(UnpackLE16(Slice(raw, 2, 4))),
                        ReversedHex(Slice(raw, 4, 8)), At(raw, 8), At(raw, 9))

\* Telegram.__init__: the raw bytes it keeps
InitRawData(input) ==
    IF input.kind = "str"
    THEN LET parsed == unhexlify(StripSpaces(input.val))
         IN  IF parsed.ok THEN parsed.val ELSE << >>
    ELSE input.val

\* Telegram.__init__: the header it ends with
InitHeader(raw) == IF raw # << >> THEN ParseHeader(raw) ELSE NoObject

\* a decrypt that splices the plaintext one byte early
TelegramDecryptFrom9(raw, hdr, key, crypto_available) ==
    IF hdr.isNone THEN [ret |-> TRUE, raw_data |-> raw]
    ELSE IF ~hdr.is_encrypted THEN [ret |-> TRUE, raw_data |-> raw]
    ELSE IF key = << >> THEN [ret |-> FALSE, raw_data |-> raw]
    ELSE LET decrypted_data ==
                 decrypt_aes_cbc(SliceFrom(raw, 10), key, hdr.manufacturer,
                                 hdr.meter_id, crypto_available)
         IN  IF decrypted_data.ok
             THEN [ret |-> TRUE, raw_data |-> Slice(raw, 0, 9) \o decrypted_data.val]
             ELSE [ret |-> FALSE, raw_data |-> raw]

\* a decrypt that drops the payload when decryption fails
TelegramDecryptDropsOnFailure(raw, hdr, key, crypto_available) ==
    IF hdr.isNone THEN [ret |-> TRUE, raw_data |-> raw]
    ELSE IF ~hdr.is_encrypted THEN [ret |-> TRUE, raw_data |-> raw]
    ELSE IF key = << >> THEN [ret |-> FALSE, raw_data |-> raw]
    ELSE LET decrypted_data ==
                 decrypt_aes_cbc(SliceFrom(raw, 10), key, hdr.manufacturer,
                                 hdr.meter_id, crypto_available)
         IN  IF decrypted_data.ok
             THEN [ret |-> TRUE, raw_data |-> Slice(raw, 0, 10) \o decrypted_data.val]
             ELSE [ret |-> FALSE, raw_data |-> Slice(raw, 0, 10)]

\* Telegram.decrypt: its return value and the raw_data it leaves
TelegramDecrypt(raw, hdr, key, crypto_available) ==
    IF hdr.isNone THEN [ret |-> TRUE, raw_data |-> raw]
    ELSE IF ~hdr.is_encrypted THEN [ret |-> TRUE, raw_data |-> raw]
    ELSE IF key = << >> THEN [ret |-> FALSE, raw_data |-> raw]
    ELSE LET decrypted_data ==
                 decrypt_aes_cbc(SliceFrom(raw, 10), key, hdr.manufacturer,
                                 hdr.meter_id, crypto_available)
         IN  IF decrypted_data.ok
             THEN [ret |-> TRUE, raw_data |-> Slice(raw, 0, 10) \o decrypted_data.val]
             ELSE [ret |-> FALSE, raw_data |-> raw]

\* the hex string of the repository's test and of the first scenario
KamHex ==
    << "3", "7", "4", "4", "9", "3", "4", "4", "4", "8", "3", "6", "3", "5",
       "1", "2", "1", "8", "0", "6", "7", "a", "c", "7", "0", "0", "0", "0",
       "2", "0", "0", "c", "1", "3", "9", "1", "1", "9", "0", "0", "0", "0",
       "4", "c", "1", "3", "9", "1", "1", "7", "0", "0", "0", "0", "4", "2",
       "6", "c", "b", "f", "2", "c", "c", "c", "0", "8", "1", "3", "9", "1",
       "1", "7", "0", "0", "0", "0", "c", "2", "0", "8", "6", "c", "b", "f",
       "2", "c", "0", "2", "b", "b", "5", "6", "0", "0", "0", "0", "3", "2",
       "6", "c", "f", "f", "f", "f", "0", "4", "6", "d", "1", "e", "0", "2",
       "d", "e", "2", "1", "f", "e", "d", "0" >>

(***************************************************************************)
(* MBusDataRecord and MBusProtocol.parse_data_records (protocol.py)        *)
(***************************************************************************)
STRING_VARIABLE == 11
VARIABLE_LENGTH == 23

\* MBusProtocol._get_data_length: dif_lengths.get(dif, 0)
get_data_length(dif) ==
    CASE dif = 0 -> 0
      [] dif = 1 -> 1
      [] dif = 2 -> 2
      [] dif = 3 -> 3
      [] dif = 4 -> 4
      [] dif = 5 -> 4
      [] dif = 6 -> 6
      [] dif = 7 -> 8
      [] dif = 8 -> 1
      [] dif = 16 -> 1
      [] dif = 17 -> 2
      [] dif = 18 -> 3
      [] dif = 19 -> 4
      [] dif = 20 -> 4
      [] dif = 21 -> 6
      [] dif = 22 -> 8
      [] dif = VARIABLE_LENGTH -> 1
      [] dif = STRING_VARIABLE -> 1
      [] dif = 12 -> 0
      [] OTHER -> 0

\* the index at which a DIFE or VIFE chain starting at i stops being read:
\* just after the first byte without the extension bit, or the end of data
ChainEnd(data, i) ==
    LET closing == { j \in i..(Len(data) - 1) : BitAnd(At(data, j), 128) = 0 }
    IN  IF closing = {} THEN Max(i, Len(data))
        ELSE (CHOOSE j \in closing : \A k \in closing : j <= k) + 1

\* a DIFE accumulation that shifts every DIFE's storage bits one nibble
\* too far
RECURSIVE DifeFoldShifted(_, _, _)
DifeFoldShifted(dife_bytes, n, acc) ==
    IF n > Len(dife_bytes) THEN acc
    ELSE LET dife == dife_bytes[n]
         IN  DifeFoldShifted(dife_bytes, n + 1,
                 [ storage_number |->
                       BitOr(acc.storage_number, ShiftLeft(BitAnd(dife, 15), n * 4)),
                   tariff |->
                       BitOr(acc.tariff, ShiftLeft(ShiftRight(BitAnd(dife, 48), 4), (n - 1) * 2)),
                   device |-> IF BitAnd(dife, 64) # 0 THEN 1 ELSE acc.device ])

\* the DIFE loop's accumulation of storage_number, tariff and device over
\* dife_bytes[n..]
RECURSIVE DifeFold(_, _, _)
DifeFold(dife_bytes, n, acc) ==
    IF n > Len(dife_bytes) THEN acc
    ELSE LET dife == dife_bytes[n]
         IN  DifeFold(dife_bytes, n + 1,
                 [ storage_number |->
                       BitOr(acc.storage_number, ShiftLeft(BitAnd(dife, 15), (n - 1) * 4)),
                   tariff |->
                       BitOr(acc.tariff, ShiftLeft(ShiftRight(BitAnd(dife, 48), 4), (n - 1) * 2)),
                   device |-> IF BitAnd(dife, 64) # 0 THEN 1 ELSE acc.device ])

\* MBusDataRecord.__init__ as parse_data_records calls it, with the
\* dife_data and vife_data it attaches afterwards
MBusDataRecord(dif, vif, value, storage_number, tariff, subunit, function, dife_data, vife_data) ==
    [ dif |-> dif, vif |-> vif, value |-> value, storage_number |-> storage_number,
      tariff |-> tariff, subunit |-> subunit, function |-> function,
      dife_data |-> dife_data, vife_data |-> vife_data ]

\* a loop pass that emits the record with whatever value bytes are left
\* when the announced length runs past the end of data
ParseRecordAtClipped(data, i) ==
    LET len        == Len(data)
        dif        == At(data, i)
        dif_value  == BitAnd(dif, 15)
        function   == ShiftRight(BitAnd(dif, 48), 4)
        i1         == i + 1
        i2         == IF BitAnd(dif, 128) # 0 THEN ChainEnd(data, i1) ELSE i1
        dife_bytes == Slice(data, i1, i2)
        dib        == DifeFold(dife_bytes, 1,
                               [storage_number |-> 0, tariff |-> 0, device |-> 0])
    IN  IF i2 >= len THEN [emit |-> FALSE, next |-> i2]
        ELSE LET vif        == At(data, i2)
                 i3         == i2 + 1
                 i4         == IF BitAnd(vif, 128) # 0 THEN ChainEnd(data, i3) ELSE i3
                 vife_bytes == Slice(data, i3, i4)
                 vif_value  == BitAnd(vif, 127)
                 length     == IF (dif_value = VARIABLE_LENGTH \/ dif_value = STRING_VARIABLE)
                                   /\ i4 < len
                               THEN At(data, i4) + 1
                               ELSE get_data_length(dif_value)
             IN  [ emit   |-> TRUE,
                   next   |-> Max(len, i4 + length),
                   record |-> MBusDataRecord(dif_value, vif_value,
                                  Slice(data, i4, i4 + length),
                                  dib.storage_number, dib.tariff, dib.device,
                                  function, dife_bytes, vife_bytes) ]

\* one pass of parse_data_records' while loop with the cursor at i
\* (i < len(data)): emit = FALSE is a break; next is the cursor afterwards
ParseRecordAt(data, i) ==
    LET len        == Len(data)
        dif        == At(data, i)
        dif_value  == BitAnd(dif, 15)
        function   == ShiftRight(BitAnd(dif, 48), 4)
        i1         == i + 1
        i2         == IF BitAnd(dif, 128) # 0 THEN ChainEnd(data, i1) ELSE i1
        dife_bytes == Slice(data, i1, i2)
        dib        == DifeFold(dife_bytes, 1,
                               [storage_number |-> 0, tariff |-> 0, device |-> 0])
    IN  IF i2 >= len THEN [emit |-> FALSE, next |-> i2]
        ELSE LET vif        == At(data, i2)
                 i3         == i2 + 1
                 i4         == IF BitAnd(vif, 128) # 0 THEN ChainEnd(data, i3) ELSE i3
                 vife_bytes == Slice(data, i3, i4)
                 vif_value  == BitAnd(vif, 127)
                 length     == IF (dif_value = VARIABLE_LENGTH \/ dif_value = STRING_VARIABLE)
                                   /\ i4 < len
                               THEN At(data, i4) + 1
                               ELSE get_data_length(dif_value)
             IN  IF i4 + length > len THEN [emit |-> FALSE, next |-> i4]
                 ELSE [ emit   |-> TRUE,
                        next   |-> i4 + length,
                        record |-> MBusDataRecord(dif_value, vif_value,
                                       Slice(data, i4, i4 + length),
                                       dib.storage_number, dib.tariff, dib.device,
                                       function, dife_bytes, vife_bytes) ]

RECURSIVE ParseRecordsFrom(_, _, _)
ParseRecordsFrom(data, i, records) ==
    IF i >= Len(data) THEN records
    ELSE LET r == ParseRecordAt(data, i)
         IN  IF r.emit THEN ParseRecordsFrom(data, r.next, Append(records, r.record))
             ELSE records

\* MBusProtocol.parse_data_records
parse_data_records(data) == ParseRecordsFrom(data, 0, << >>)

(***************************************************************************)
(* Telegram.parse_data (telegram.py)                                       *)
(***************************************************************************)
\* Telegram._get_data_type_and_length: the length it returns
get_data_type_and_length(dif) ==
    LET data_field == BitAnd(dif, 15)
    IN  CASE data_field = 0 -> 0
          [] data_field = 1 -> 1
          [] data_field = 2 -> 2
          [] data_field = 3 -> 3
          [] data_field = 4 -> 4
          [] data_field = 5 -> 4
          [] data_field = 6 -> 6
          [] data_field = 7 -> 8
          [] data_field = 9 -> 2
          [] data_field = 10 -> 4
          [] data_field = 11 -> 6
          [] data_field = 12 -> 8
          [] data_field = 13 -> 0
          [] data_field = 14 -> 8
          [] OTHER -> 1

\* Telegram._parse_data_blocks: the blocks it decodes, in payload order.
\* Every VIF has a non-empty field name, so each block enters the dict;
\* a block is kept as its DIF, its VIF and its value bytes.
RECURSIVE ParseBlocksFrom(_, _, _)
ParseBlocksFrom(data, pos, blocks) ==
    IF pos >= Len(data) \/ pos + 2 > Len(data) THEN blocks
    ELSE LET dif    == At(data, pos)
             vif    == At(data, pos + 1)
             length == get_data_type_and_length(dif)
         IN  IF pos + 2 + length > Len(data) THEN blocks
             ELSE ParseBlocksFrom(data, pos + 2 + length,
                      Append(blocks, [dif |-> dif, vif |-> vif,
                                      value |-> Slice(data, pos + 2, pos + 2 + length)]))

parse_data_blocks(data) == ParseBlocksFrom(data, 0, << >>)

\* the empty dict {}
EmptyDict ==
    [ empty |-> TRUE, manufacturer |-> << >>, meter_id |-> << >>, meter_type |-> 0,
      version |-> 0, has_ci |-> FALSE, ci_field |-> 0, blocks |-> << >> ]

\* Telegram.parse_data: the dict it returns and stores in parsed_data
TelegramParseData(raw, hdr) ==
    IF hdr.isNone THEN EmptyDict
    ELSE [ empty |-> FALSE, manufacturer |-> hdr.manufacturer, meter_id |-> hdr.meter_id,
           meter_type |-> hdr.meter_type, version |-> hdr.version,
           has_ci |-> Len(raw) > 10,
           ci_field |-> IF Len(raw) > 10 THEN At(raw, 10) ELSE 0,
           blocks |-> IF Len(raw) > 10 THEN parse_data_blocks(SliceFrom(raw, 11))
                      ELSE << >> ]

(***************************************************************************)
(* DriverBase and AutoDriver (drivers/driver_base.py, drivers/auto.py).    *)
(* A driver is its name, its three constraint lists and the outcome of     *)
(* its _parse_telegram_data hook: "dict", "none" or "raises".              *)
(***************************************************************************)
Driver(name, manufacturer_codes, meter_types, meter_versions, hook) ==
    [ name |-> name, manufacturer_codes |-> manufacturer_codes,
      meter_types |-> meter_types, meter_versions |-> meter_versions, hook |-> hook ]

\* DriverBase.can_handle
can_handle(driver, hdr) ==
    IF hdr.isNone THEN FALSE
    ELSE IF driver.manufacturer_codes # {} /\ hdr.manufacturer \notin driver.manufacturer_codes
    THEN FALSE
    ELSE IF driver.meter_types # {} /\ hdr.meter_type \notin driver.meter_types
    THEN FALSE
    ELSE IF driver.meter_versions # {} /\ hdr.version \notin driver.meter_versions
    THEN FALSE
    ELSE TRUE

\* the value no observer call has returned yet / a returned None
NoCall == [ isNone |-> TRUE, driver |-> None, records |-> << >> ]

\* DriverBase.process_telegram: None, or the reading, kept as the name of
\* the driver that built it and the data records it was built from
DriverProcessTelegram(driver, raw, hdr) ==
    IF ~can_handle(driver, hdr) THEN NoCall
    ELSE LET data_records == parse_data_records(SliceFrom(raw, 10))
         IN  IF driver.hook = "raises" THEN NoCall
             ELSE [ isNone |-> FALSE, driver |-> driver.name, records |-> data_records ]

\* AutoDriver.find_driver
RECURSIVE FindDriverFrom(_, _, _)
FindDriverFrom(registry, n, hdr) ==
    IF n > Len(registry) THEN None
    ELSE IF can_handle(registry[n], hdr) THEN registry[n].name
    ELSE FindDriverFrom(registry, n + 1, hdr)

find_driver(registry, hdr) ==
    IF hdr.isNone THEN None ELSE FindDriverFrom(registry, 1, hdr)

\* AutoDriver.process_telegram: the loop over self.drivers from index n
RECURSIVE AutoProcessFrom(_, _, _, _)
AutoProcessFrom(registry, n, raw, hdr) ==
    IF n > Len(registry) THEN NoCall
    ELSE IF can_handle(registry[n], hdr)
              /\ ~DriverProcessTelegram(registry[n], raw, hdr).isNone
    THEN DriverProcessTelegram(registry[n], raw, hdr)
    ELSE AutoProcessFrom(registry, n + 1, raw, hdr)

AutoProcessTelegram(registry, raw, hdr) ==
    IF hdr.isNone THEN NoCall ELSE AutoProcessFrom(registry, 1, raw, hdr)

(***************************************************************************)
(* MBusProtocol.analyze_telegram (protocol.py): the fields valid, error,   *)
(* id, encrypted and records of its result.  error is "" while the result  *)
(* has no error key, id is << >> while it is None.                         *)
(***************************************************************************)
Analysis(valid, error, id, encrypted, records) ==
    [ valid |-> valid, error |-> error, id |-> id, encrypted |-> encrypted,
      records |-> records ]

NoAnalysis == Analysis(FALSE, "", << >>, FALSE, << >>)

analyze_telegram(data) ==
    IF Len(data) < 10 THEN Analysis(FALSE, "too short", << >>, FALSE, << >>)
    ELSE IF At(data, 0) = 104 /\ Len(data) >= 9
    THEN LET length1 == At(data, 1)
             length2 == At(data, 2)
             id      == JoinHex(Slice(data, 5, 9))
         IN  IF length1 # length2 \/ At(data, 3) # 104
             THEN Analysis(FALSE, "invalid long header", << >>, FALSE, << >>)
             ELSE IF Len(data) < length1 + 6
             THEN Analysis(FALSE, "invalid length", id, FALSE, << >>)
             ELSE Analysis(FALSE, "", id, FALSE, << >>)
    ELSE IF At(data, 0) = 68
    THEN LET encrypted == BitAnd(At(data, 1), 5) > 0
         IN  Analysis(TRUE, "", JoinHex(Reversed(Slice(data, 4, 8))), encrypted,
                      IF Len(data) > 11 /\ ~encrypted
                      THEN parse_data_records(SliceFrom(data, 11))
                      ELSE << >>)
    ELSE Analysis(FALSE, "unknown format", << >>, FALSE, << >>)

(***************************************************************************)
(* TelegramAnalyzer._compare_data (tools/telegram_analyzer.py).  A record  *)
(* is the dict _extract_records builds: description, value, unit, storage, *)
(* tariff.  A value is a number (isNum) or another object, equal only to   *)
(* itself.                                                                 *)
(***************************************************************************)
NumValue(n)   == [ isNum |-> TRUE, v |-> n ]
OtherValue(n) == [ isNum |-> FALSE, v |-> n ]

ExtractedRecord(description, value, unit, storage, tariff) ==
    [ description |-> description, value |-> value, unit |-> unit,
      storage |-> storage, tariff |-> tariff ]

\* the test of the inner loops with the tariff comparison left out
KeyEqualNoTariff(record1, record2) ==
    /\ record1.description = record2.description
    /\ record1.unit = record2.unit
    /\ record1.storage = record2.storage

\* the test of the inner loops: the two records are the same field
KeyEqual(record1, record2) ==
    /\ record1.description = record2.description
    /\ record1.unit = record2.unit
    /\ record1.storage = record2.storage
    /\ record1.tariff = record2.tariff

\* the entry appended to same_fields, only_in_first and only_in_second
FieldEntry(record) ==
    [ description |-> record.description, value |-> record.value, unit |-> record.unit ]

\* the entry appended to different_fields
DiffEntry(record1, record2) ==
    [ description |-> record1.description, value1 |-> record1.value,
      value2 |-> record2.value, unit |-> record1.unit,
      diff |-> IF record1.value.isNum /\ record2.value.isNum
               THEN [ isNone |-> FALSE, val |-> record2.value.v - record1.value.v ]
               ELSE [ isNone |-> TRUE, val |-> 0 ] ]

\* the inner for loop: index of the first record of `records` that is the
\* same field as `record`, 0 when the loop ends with found = False
FirstMatch(record, records) ==
    LET hits == { j \in 1..Len(records) : KeyEqual(record, records[j]) }
    IN  IF hits = {} THEN 0 ELSE CHOOSE j \in hits : \A k \in hits : j <= k

(***************************************************************************)
(* KeyDiscovery.add_key (tools/meter_discovery.py).  known_keys is the     *)
(* dict as its set of items; an item is the key with the description and   *)
(* manufacturer of its info dict.                                          *)
(***************************************************************************)
\* U+FB00, LATIN SMALL LIGATURE FF: one character whose upper case is "FF"
LigatureFF == "U+FB00"

\* str.upper() of one character: printable ASCII and U+FB00
CharUpper(c) ==
    IF c = LigatureFF THEN << "F", "F" >>
    ELSE IF Ord(c) \in 97..122 THEN << Chr(Ord(c) - 32) >>
    ELSE << c >>

\* str.upper()
RECURSIVE StrUpper(_)
StrUpper(str) ==
    IF str = << >> THEN << >> ELSE CharUpper(Head(str)) \o StrUpper(Tail(str))

\* the characters of "0123456789ABCDEF"
KeyAlphabet == { HexUpper[i] : i \in 1..16 }

\* the required len(key)
KeyLen == 32

\* self.known_keys[key] = {...}
DictSet(known, key, description, manufacturer) ==
    { e \in known : e.key # key }
        \cup { [ key |-> key, description |-> description, manufacturer |-> manufacturer ] }

\* KeyDiscovery.add_key: its return value and known_keys after the call
add_key(known, key, description, manufacturer) ==
    LET k == StrUpper(StripSpaces(key))
    IN  IF ~(\A i \in 1..Len(k) : k[i] \in KeyAlphabet)
        THEN [ ret |-> FALSE, known_keys |-> known ]
        ELSE IF Len(k) # KeyLen
        THEN [ ret |-> FALSE, known_keys |-> known ]
        ELSE [ ret |-> TRUE, known_keys |-> DictSet(known, k, description, manufacturer) ]

(***************************************************************************)
(* MBusDataRecord._parse_value (protocol.py).  A parsed value is its kind  *)
(* ("None", "int", "float", "bytes", "str"), the number n for an int, the   *)
(* characters of a str that is a hex dump or a date, and the bytes of a    *)
(* bytes object, the four IEEE bytes of a float or the code points of a    *)
(* decoded string.                                                         *)
(***************************************************************************)
ParsedValue(kind, n, text, bytes) == [ kind |-> kind, n |-> n, text |-> text, bytes |-> bytes ]

NoValue     == ParsedValue("None", 0, << >>, << >>)
IntValue(n) == ParsedValue("int", n, << >>, << >>)

\* self.value.hex()
HexDump(value) == ParsedValue("str", 0, JoinHex(value), << >>)

\* int.from_bytes(b, byteorder='little')
RECURSIVE FromLE(_)
FromLE(b) == IF b = << >> THEN 0 ELSE Head(b) + 256 * FromLE(Tail(b))

\* int(b.hex(), 16) for a non-empty b
RECURSIVE FromBE(_)
FromBE(b) == IF b = << >> THEN 0 ELSE FromBE(SubSeq(b, 1, Len(b) - 1)) * 256 + b[Len(b)]

\* int.from_bytes(b, byteorder='little', signed=True): the last byte
\* carries the sign
RECURSIVE FromLESigned(_)
FromLESigned(b) ==
    IF b = << >> THEN 0
    ELSE IF Len(b) = 1 THEN (IF b[1] >= 128 THEN b[1] - 256 ELSE b[1])
    ELSE b[1] + 256 * FromLESigned(Tail(b))

\* MBusDataRecord._decode_bcd
RECURSIVE decode_bcd(_, _)
decode_bcd(value, digits) ==
    IF digits = 0 THEN 0
    ELSE LET digit == BitAnd(value, 15)
         IN  (IF digit > 9 THEN 9 ELSE digit)
                 + 10 * decode_bcd(ShiftRight(value, 4), digits - 1)

\* the :02d and :04d formats of a number below 100 / 10000
Dec2(n) == << HexLower[(n \div 10) + 1], HexLower[(n % 10) + 1] >>
Dec4(n) == Dec2(n \div 100) \o Dec2(n % 100)

\* " (Geçersiz)", the c with cedilla written as its code point
InvalidMark == << " ", "(", "G", "e", "U+00E7", "e", "r", "s", "i", "z", ")" >>

\* MBusDataRecord._parse_date for len(data) >= 2
parse_date(data) ==
    LET day   == BitAnd(data[1], 31)
        month == BitOr(BitAnd(data[2], 15), ShiftRight(BitAnd(data[1], 224), 5))
        year  == 2000 + ShiftRight(BitAnd(data[2], 240), 4)
        text  == Dec4(year) \o << "-" >> \o Dec2(month) \o << "-" >> \o Dec2(day)
    IN  IF month < 1 \/ month > 12 \/ day < 1 \/ day > 31
        THEN text \o InvalidMark ELSE text

\* MBusDataRecord._parse_datetime for len(data) >= 4
parse_datetime(data) ==
    LET date_str == parse_date(SubSeq(data, 1, 2))
        minute   == BitAnd(data[3], 63)
        hour     == BitAnd(data[4], 31)
        text     == date_str \o << " " >> \o Dec2(hour) \o << ":" >> \o Dec2(minute)
    IN  IF hour > 23 \/ minute > 59 THEN text \o InvalidMark ELSE text

\* bytes.decode('utf-8'), falling back to decode('ascii', errors='replace'),
\* as code points; no byte here opens a multi-byte UTF-8 sequence
\* (C2..F4), so a byte above 7F always takes the fallback and becomes U+FFFD
DecodeText(value) ==
    IF \A k \in 1..Len(value) : value[k] < 128 THEN value
    ELSE [ k \in 1..Len(value) |-> IF value[k] < 128 THEN value[k] ELSE 65533 ]

\* the branch of _parse_value chosen by self.dif; raised marks an exception
\* of struct.unpack or int()
ParseByDif(dif, value) ==
    LET Raised == [ raised |-> TRUE, v |-> NoValue ]
        Ok(v)  == [ raised |-> FALSE, v |-> v ]
        Unpack(size) ==
            IF Len(value) # size THEN Raised
            ELSE Ok(IntValue(FromLESigned(value)))
        Bcd(digits) ==
            IF value = << >> THEN Raised
            ELSE Ok(IntValue(decode_bcd(FromBE(value), digits)))
        Wide(bits) ==
            LET value_int == FromLESigned(value)
            IN  Ok(IntValue(IF BitAnd(value_int, Pow2(bits - 1)) # 0
                            THEN value_int - Pow2(bits) ELSE value_int))
    IN  CASE dif = 0 -> Ok(NoValue)
          [] dif = 1 -> Unpack(1)
          [] dif = 2 -> Unpack(2)
          [] dif = 3 -> Wide(24)
          [] dif = 4 -> Unpack(4)
          [] dif = 5 -> IF Len(value) # 4 THEN Raised
                        ELSE Ok(ParsedValue("float", 0, << >>, value))
          [] dif = 6 -> Wide(48)
          [] dif = 7 -> Unpack(8)
          [] dif = 16 -> Bcd(2)
          [] dif = 17 -> Bcd(4)
          [] dif = 18 -> Bcd(6)
          [] dif = 19 -> Bcd(8)
          [] dif = VARIABLE_LENGTH ->
                Ok(ParsedValue("bytes", 0, << >>,
                       IF Len(value) > 0
                       THEN IF value[1] + 1 <= Len(value)
                            THEN Slice(value, 1, value[1] + 1)
                            ELSE SliceFrom(value, 1)
                       ELSE value))
          [] dif = STRING_VARIABLE -> Ok(ParsedValue("str", 0, << >>, DecodeText(value)))
          [] OTHER -> Ok(HexDump(value))

\* MBusDataRecord._parse_value: the parsed_value it leaves
parse_value(dif, vif, value) ==
    LET byDif == ParseByDif(dif, value)
    IN  IF byDif.raised THEN HexDump(value)
        ELSE IF vif = 168 /\ Len(value) >= 2
        THEN ParsedValue("str", 0, parse_date(value), << >>)
        ELSE IF vif = 176 /\ Len(value) >= 4
        THEN ParsedValue("str", 0, parse_datetime(value), << >>)
        ELSE byDif.v

(***************************************************************************)
(* MeterInfo.update_from_telegram (tools/meter_discovery.py) and           *)
(* TelegramAccessPoint.process_telegram (protocol.py).                     *)
(***************************************************************************)
\* str.lower() over printable ASCII
StrLower(str) ==
    [ i \in 1..Len(str) |->
        IF Ord(str[i]) \in 65..90 THEN Chr(Ord(str[i]) + 32) ELSE str[i] ]

\* transmission_interval: None, or the number num / den
NoInterval == [ isNone |-> TRUE, num |-> 0, den |-> 1 ]
Seconds(n) == [ isNone |-> FALSE, num |-> n, den |-> 1 ]

\* a moving average that weighs the new sample 0.8
MovingAverageSwapped(old, interval) ==
    [ isNone |-> FALSE, num |-> old.num + 4 * interval * old.den, den |-> 5 * old.den ]

\* transmission_interval * 0.8 + interval * 0.2
MovingAverage(old, interval) ==
    [ isNone |-> FALSE, num |-> 4 * old.num + interval * old.den, den |-> 5 * old.den ]

\* the len(self.last_telegrams) > 5 test
SummaryCapacity == 5

\* self.max_history
max_history == 100

\* last_telegrams.append(entry), then pop(0) when longer than 5
SummaryPush(list, entry) ==
    LET appended == Append(list, entry)
    IN  IF Len(appended) > SummaryCapacity THEN Tail(appended) ELSE appended

\* a history that makes room only once it is over max_history
HistoryPushLate(history, entry) ==
    Append(IF Len(history) > max_history THEN Tail(history) ELSE history, entry)

\* pop(0) when the history is full, then append(entry)
HistoryPush(history, entry) ==
    Append(IF Len(history) >= max_history THEN Tail(history) ELSE history, entry)

\* dict[key] = value on a dict kept as its set of items
ItemSet(items, id, data) ==
    { it \in items : it.id # id } \cup { [ id |-> id, data |-> data ] }

\* one entry of a telegram list: {"data": ..., "timestamp": ...}
TelegramEntry(data, timestamp) == [ data |-> data, timestamp |-> timestamp ]

\* MeterInfo.update_from_telegram: the fields it leaves behind when called
\* at time t on a MeterInfo whose fields are mi
UpdateFromTelegram(mi, telegram_data, t) ==
    LET hdr == ParseHeader(telegram_data)
    IN  IF hdr.isNone THEN mi
        ELSE IF StrLower(hdr.meter_id) # StrLower(mi.meter_id) THEN mi
        ELSE LET interval == t - mi.last_seen
                 count    == mi.telegram_count + 1
             IN  [ mi EXCEPT
                     !.header = [ isNone |-> FALSE,
                                  manufacturer |-> hdr.manufacturer,
                                  type_code |-> hdr.meter_type,
                                  version |-> hdr.version,
                                  is_encrypted |-> hdr.is_encrypted ],
                     !.last_seen = t,
                     !.telegram_count = count,
                     !.transmission_interval =
                         IF count > 1
                         THEN IF mi.transmission_interval.isNone
                              THEN Seconds(interval)
                              ELSE MovingAverage(mi.transmission_interval, interval)
                         ELSE mi.transmission_interval,
                     !.last_telegrams =
                         SummaryPush(mi.last_telegrams,
                                     TelegramEntry(JoinHex(telegram_data), t)),
                     !.data_records =
                         IF ~hdr.is_encrypted
                         THEN parse_data_records(SliceFrom(telegram_data, 10))
                         ELSE mi.data_records ]

\* TelegramAccessPoint.process_telegram: the fields it leaves behind and
\* what it returns, when called at time t on an access point whose fields
\* are ap
AccessPointProcess(ap, telegram_data, t) ==
    LET analysis == analyze_telegram(telegram_data)
        meter_id == analysis.id
    IN  IF ~analysis.valid
        THEN [ ap EXCEPT !.analysis = analysis, !.ret = None ]
        ELSE IF meter_id = << >>
        THEN [ ap EXCEPT !.analysis = analysis, !.ret = None ]
        ELSE [ ap EXCEPT
                 !.analysis = analysis,
                 !.last = ItemSet(ap.last, meter_id, TelegramEntry(telegram_data, t)),
                 !.history =
                     IF meter_id \in ap.meters
                     THEN HistoryPush(ap.history,
                                      TelegramEntry(JoinHex(telegram_data), t))
                     ELSE ap.history,
                 !.ret = "result" ]

(***************************************************************************)
(* KeyDiscovery.match_key_to_meter and load_keys                           *)
(* (tools/meter_discovery.py).  meter_keys is kept as the set of its       *)
(* items [meter, key], key_matches as the set of its items [key, meters].  *)
(***************************************************************************)
\* self.key_matches[key], << >> while the key is absent
MatchesOf(matches, key) ==
    IF \E e \in matches : e.key = key
    THEN (CHOOSE e \in matches : e.key = key).meters
    ELSE << >>

\* the two statements that enter meter_id under key in key_matches
EnterMatch(matches, key, meter_id) ==
    LET listed == MatchesOf(matches, key)
    IN  { e \in matches : e.key # key }
            \cup { [ key |-> key,
                     meters |-> IF \E i \in 1..Len(listed) : listed[i] = meter_id
                                THEN listed ELSE Append(listed, meter_id) ] }

\* KeyDiscovery.match_key_to_meter
match_key_to_meter(keys, matches, meter_id, key) ==
    LET k == StrUpper(StripSpaces(key))
    IN  [ meter_keys |-> { e \in keys : e.meter # meter_id }
                             \cup { [ meter |-> meter_id, key |-> k ] },
          key_matches |-> EnterMatch(matches, k, meter_id) ]

\* the loop of load_keys over the items of the loaded meter_keys
RECURSIVE RebuildMatches(_, _, _)
RebuildMatches(items, n, matches) ==
    IF n > Len(items) THEN matches
    ELSE RebuildMatches(items, n + 1, EnterMatch(matches, items[n].key, items[n].meter))

\* KeyDiscovery.load_keys on a file that holds known and the items; a file
\* that cannot be read or parsed leaves everything as it was
load_keys(known, keys, matches, file) ==
    IF ~file.readable
    THEN [ known_keys |-> known, meter_keys |-> keys, key_matches |-> matches ]
    ELSE [ known_keys |-> file.known_keys,
           meter_keys |-> { file.meter_keys[i] : i \in 1..Len(file.meter_keys) },
           key_matches |-> RebuildMatches(file.meter_keys, 1, {}) ]

(***************************************************************************)
(* Meter.process_telegram (meter.py).  Meter.driver is None, one driver    *)
(* (kind "driver") or an AutoDriver with its registry (kind "auto").       *)
(***************************************************************************)
LoadedDriver(driver) == [ isNone |-> FALSE, kind |-> "driver", driver |-> driver ]
LoadedAuto(registry) == [ isNone |-> FALSE, kind |-> "auto", registry |-> registry ]

\* self.driver.process_telegram(telegram)
MeterDriverCall(driver, raw, hdr) ==
    IF driver.kind = "auto" THEN AutoProcessTelegram(driver.registry, raw, hdr)
    ELSE DriverProcessTelegram(driver.driver, raw, hdr)

\* the Telegram object a Meter keeps
TelegramObject(raw, hdr) == [ isNone |-> FALSE, raw_data |-> raw, header |-> hdr ]

MeterOutcome(ret, reading, telegram, update) ==
    [ ret |-> ret, last_reading |-> reading, last_telegram |-> telegram,
      last_update |-> update ]

\* a process_telegram that keeps the telegram before the driver has accepted it
MeterProcessTelegramEager(m, telegram_data, t, crypto_available) ==
    LET keep == MeterOutcome(FALSE, m.last_reading, m.last_telegram, m.last_update)
        raw  == InitRawData(telegram_data)
        hdr  == InitHeader(raw)
    IN  IF m.driver.isNone THEN keep
        ELSE IF hdr.isNone THEN keep
        ELSE IF StrLower(hdr.meter_id) # StrLower(m.id) THEN keep
        ELSE LET dec == TelegramDecrypt(raw, hdr, m.key, crypto_available)
             IN  IF hdr.is_encrypted /\ ~dec.ret THEN keep
                 ELSE LET result == MeterDriverCall(m.driver, dec.raw_data, hdr)
                      IN  IF ~result.isNone
                          THEN MeterOutcome(TRUE, result,
                                            TelegramObject(dec.raw_data, hdr), t)
                          ELSE MeterOutcome(FALSE, m.last_reading,
                                            TelegramObject(dec.raw_data, hdr),
                                            m.last_update)

\* Meter.process_telegram called at time t: what it returns and the three
\* fields it leaves behind
MeterProcessTelegram(m, telegram_data, t, crypto_available) ==
    LET keep == MeterOutcome(FALSE, m.last_reading, m.last_telegram, m.last_update)
        raw  == InitRawData(telegram_data)
        hdr  == InitHeader(raw)
    IN  IF m.driver.isNone THEN keep
        ELSE IF hdr.isNone THEN keep
        ELSE IF StrLower(hdr.meter_id) # StrLower(m.id) THEN keep
        ELSE LET dec == TelegramDecrypt(raw, hdr, m.key, crypto_available)
             IN  IF hdr.is_encrypted /\ ~dec.ret THEN keep
                 ELSE LET result == MeterDriverCall(m.driver, dec.raw_data, hdr)
                      IN  IF ~result.isNone
                          THEN MeterOutcome(TRUE, result,
                                            TelegramObject(dec.raw_data, hdr), t)
                          ELSE keep

(***************************************************************************)
(* Idle values of each component, for the specifications that do not       *)
(* exercise it.                                                            *)
(***************************************************************************)
CodecIdle == mfctCode = 0 /\ mfctText = << >> /\ mfctEnc = [ok |-> FALSE, val |-> 0]
             /\ codecPc = "idle"
CrcIdle   == crcAcc = 0 /\ crcLen = 0 /\ crcPc = "idle"
FrameIdle == frameIn = << >> /\ frameOut = NoObject /\ framePc = "idle"
TgIdle    == tgInput = [kind |-> "bytes", val |-> << >>] /\ raw_data = << >>
             /\ header = NoObject /\ tgPc = "idle"
             /\ lastOp = "none" /\ decryptRet = FALSE /\ nDecrypts = 0 /\ ivOut = << >>
             /\ decryptOk = FALSE /\ parsed_data = EmptyDict /\ drivers = << >>
             /\ callOut = NoCall
RecIdle   == prData = << >> /\ prI = 0 /\ prRecords = << >> /\ prPc = "idle"
CmpIdle   == records1 = << >> /\ records2 = << >> /\ cmpEncrypted = << FALSE, FALSE >>
             /\ cmpI = 0 /\ same_fields = << >> /\ different_fields = << >>
             /\ only_in_first = << >> /\ only_in_second = << >> /\ cmpPc = "idle"
KeyIdle   == known_keys = {} /\ akKey = << >> /\ akRet = FALSE
ValIdle   == pvDif = 0 /\ pvVif = 0 /\ pvValue = << >> /\ parsed_value = NoValue
             /\ pvPc = "idle"
HistIdle  == /\ hsTarget = "idle" /\ now = 0 /\ nCalls = 0 /\ hsFrame = << >>
             /\ arrivals = << >>
             /\ miMeterId = << >> /\ miHeader = NoObject /\ last_seen = 0
             /\ telegram_count = 0 /\ transmission_interval = NoInterval
             /\ last_telegrams = << >> /\ miRecords = << >>
             /\ apMeters = {} /\ apLast = {} /\ telegram_history = << >>
             /\ apAnalysis = NoAnalysis /\ apRet = None
MatchIdle == meter_keys = {} /\ key_matches = {}
MeterIdle == /\ mtDriver = NoObject /\ mtId = << >> /\ mtKey = << >> /\ mtNow = 0
             /\ mtCalls = 0 /\ mtFrame = << >> /\ mtRet = FALSE
             /\ last_reading = NoCall /\ last_telegram = NoObject /\ last_update = 0
BookIdle  == MatchIdle /\ MeterIdle
LateIdle  == ValIdle /\ HistIdle /\ BookIdle
ToolIdle  == CmpIdle /\ KeyIdle /\ LateIdle
ExtIdle   == RecIdle /\ ToolIdle

(***************************************************************************)
(* SpecCodec: the manufacturer codec applied to bounded inputs.            *)
(***************************************************************************)
CodeBits   == 16
MaxTextLen == 4

\* characters handed to encode_manufacturer: inside and outside '@'..'_'
CharSample == { "@", "K", "_", "a", "?" }

RECURSIVE SeqsOfLen(_, _)
SeqsOfLen(S, n) ==
    IF n = 0 THEN { << >> }
    ELSE { << x >> \o t : x \in S, t \in SeqsOfLen(S, n - 1) }

TextInputs == UNION { SeqsOfLen(CharSample, n) : n \in 2..MaxTextLen }

CodecInit ==
    /\ mfctEnc = [ok |-> FALSE, val |-> 0]
    /\ \/ codecPc = "code" /\ mfctCode \in 0..(Pow2(CodeBits) - 1) /\ mfctText = << >>
       \/ codecPc = "text" /\ mfctCode = 0 /\ mfctText \in TextInputs

Decode ==
    /\ codecPc = "code"
    /\ mfctText' = decode_manufacturer(mfctCode)
    /\ codecPc' = "decoded"
    /\ UNCHANGED << mfctCode, mfctEnc, crcVars, frameVars, tgVars, extVars >>

Encode ==
    /\ codecPc \in { "decoded", "text" }
    /\ mfctEnc' = encode_manufacturer(mfctText)
    /\ codecPc' = IF codecPc = "decoded" THEN "roundtrip" ELSE "encoded"
    /\ UNCHANGED << mfctCode, mfctText, crcVars, frameVars, tgVars, extVars >>

NextCodec == Decode \/ Encode

InitCodec == CodecInit /\ CrcIdle /\ FrameIdle /\ TgIdle /\ ExtIdle

SpecCodec == InitCodec /\ [][NextCodec]_vars

(***************************************************************************)
(* SpecCrc: calculate_crc's outer loop, one byte of `data` per step; the   *)
(* closing step feeds the CRC computed so far as the last byte of `data`.  *)
(***************************************************************************)
MaxCrcLen == 3

Bytes == 0..255

CrcInit == crcAcc = 0 /\ crcLen = 0 /\ crcPc = "feeding"

CrcFeed ==
    /\ crcPc = "feeding"
    /\ crcLen < MaxCrcLen
    /\ \E b \in Bytes : crcAcc' = CrcByte(crcAcc, b)
    /\ crcLen' = crcLen + 1
    /\ UNCHANGED << crcPc, codecVars, frameVars, tgVars, extVars >>

CrcAppendOwn ==
    /\ crcPc = "feeding"
    /\ crcAcc' = CrcByte(crcAcc, crcAcc)
    /\ crcLen' = crcLen + 1
    /\ crcPc' = "closed"
    /\ UNCHANGED << codecVars, frameVars, tgVars, extVars >>

NextCrc == CrcFeed \/ CrcAppendOwn

InitCrc == CrcInit /\ CodecIdle /\ FrameIdle /\ TgIdle /\ ExtIdle

SpecCrc == InitCrc /\ [][NextCrc]_vars

(***************************************************************************)
(* SpecFrame: MBusFrame.parse applied to bounded inputs: short frames,     *)
(* long/control frames (well formed and damaged), wireless frames and      *)
(* unrecognised inputs.                                                    *)
(***************************************************************************)
MaxData == 2

CtlSample  == { 64, 8, 68 }
AddrSample == { 5, 254 }
CiSample   == { 114, 81 }
DataSample == { 0, 22, 104 }
TailSample == { << >>, << 22 >>, << 0 >>, << 22, 0 >> }

\* M-Bus arithmetic checksum (EN 13757-2), offered as one candidate check byte
SumOf(c, a) == (c + a) % 256

ShortFor(c, a) ==
    { << 16, c, a, x >> \o t :
        x \in { calculate_crc(<< c, a >>), calculate_crc(<< 16, c, a >>), SumOf(c, a) },
        t \in TailSample }

ShortInputs == UNION { ShortFor(c, a) : c \in CtlSample, a \in AddrSample }

LongBodies ==
    { << c, a, ci >> \o d :
        c \in CtlSample, a \in AddrSample, ci \in CiSample,
        d \in UNION { SeqsOfLen(DataSample, n) : n \in 0..MaxData } }

LongFrame(l1, l2, s2, body, flip, t) ==
    << 104, l1, l2, s2 >> \o body \o << BitXor(calculate_crc(body), flip) >> \o t

WirelessInputs ==
    { << first, 68, 45, 44, 120, 86, 52, 18, 27 >> \o t :
        first \in { 68, 79, 67, 80, 55 }, t \in { << >>, << 7 >>, << 7, 122 >>, << 7, 122, 1 >> } }

OtherInputs == { << >>, << 229 >>, << 229, 229 >>, << 16, 64, 5, 69 >>, << 16, 64 >> }

FrameInit ==
    /\ frameOut = NoObject
    /\ framePc = "input"
    /\ \/ frameIn \in ShortInputs \cup WirelessInputs \cup OtherInputs
       \/ \E body \in LongBodies, s2 \in { 104, 16 }, flip \in { 0, 1 },
             l1 \in { 3, 4, 5 }, l2 \in { 3, 4, 5 }, t \in TailSample :
              frameIn = LongFrame(l1, l2, s2, body, flip, t)

Parse ==
    /\ framePc = "input"
    /\ frameOut' = MBusFrameParse(frameIn)
    /\ framePc' = "parsed"
    /\ UNCHANGED << frameIn, codecVars, crcVars, tgVars, extVars >>

NextFrame == Parse

InitFrame == FrameInit /\ CodecIdle /\ CrcIdle /\ TgIdle /\ ExtIdle

SpecFrame == InitFrame /\ [][NextFrame]_vars

(***************************************************************************)
(* Spec: the Telegram facade.  A telegram is constructed from a hex        *)
(* string or from bytes and then decrypted, possibly more than once, with  *)
(* keys of every kind the callers pass.                                    *)
(***************************************************************************)
MaxBlocks   == 2
MaxDecrypts == 2

Key1 == << "0", "0", "0", "1", "0", "2", "0", "3", "0", "4", "0", "5", "0", "6",
           "0", "7", "0", "8", "0", "9", "0", "a", "0", "b", "0", "c", "0", "d",
           "0", "e", "0", "f" >>
Key2 == << "F", "F", " ", "1", "0", "2", "0", "3", "0", "4", "0", "5", "0", "6",
           "0", "7", "0", "8", "0", "9", "0", "A", "0", "B", "0", "C", "0", "D",
           "0", "E", " ", "8", "0" >>

\* the keys handed to decrypt: none, valid, too short, not hexadecimal
KeySample ==
    { << >>, Key1, Key2, << "0", "0", "1", "1" >>, << "k", "e", "y", "!" >> }

\* the first ten bytes of a frame: L, C, M (2), A (4), version, device type
Header10(first, control, a_field) ==
    << first, control, 58, 99 >> \o a_field \o << 27, 7 >>

FirstSample   == { 68, 30, 104 }
ControlSample == { 68, 64, 5, 8 }
AFieldSample  == { << 4, 3, 2, 1 >>, << 120, 86, 52, 18 >> }

Pattern(n, seed) == [i \in 1..n |-> (seed + 37 * i) % 256]

\* payloads: arbitrary bytes of whole and broken block lengths, and the
\* CBC encryptions of padded plaintexts under Key1 for the frame's own IV
PayloadSample(hdr10) ==
    LET h == ParseHeader(hdr10)
    IN  { << >>, << 122 >> }
        \cup { Pattern(BlockSize * k, 11) : k \in 1..MaxBlocks }
        \cup { Pattern(BlockSize * k + 1, 11) : k \in 1..MaxBlocks }
        \cup { encrypt_aes_cbc(Pattern(BlockSize * k - 13, 5), Key1,
                               h.manufacturer, h.meter_id) : k \in 1..MaxBlocks }

BytesInputs ==
    UNION { { [kind |-> "bytes", val |-> Header10(f, c, a) \o p] :
                p \in PayloadSample(Header10(f, c, a)) } :
            f \in FirstSample, c \in ControlSample, a \in AFieldSample }

ShortBytesInputs ==
    { [kind |-> "bytes", val |-> Slice(Header10(f, 68, << 4, 3, 2, 1 >>), 0, n)] :
        f \in FirstSample, n \in { 0, 1, 5, 9 } }

StrInputs ==
    { [kind |-> "str", val |-> v] :
        v \in { KamHex, << "3", "7", "4" >>, << "z", "z" >>,
                JoinHex(Header10(68, 64, << 4, 3, 2, 1 >>)),
                << "4", "4", " ", "4", "0", " ", "3", "a", "6", "3" >> } }

\* the drivers of the repository, and drivers with the constraints and
\* hook outcomes a DriverBase subclass can have
Multical21Driver == Driver("multical21", { << "K", "A", "M" >> }, { 7, 18 }, {}, "dict")
QwaterDriver     == Driver("qwater", { << "Q", "D", "S" >> }, { 7, 18, 17, 6 }, {}, "dict")
XyzDriver        == Driver("xyz", { << "X", "Y", "Z" >> }, {}, {}, "dict")
XyzFailing       == Driver("xyzfail", { << "X", "Y", "Z" >> }, {}, {}, "raises")
HeatDriver       == Driver("heat", {}, { 4 }, {}, "dict")
VersionDriver    == Driver("xyz27", { << "X", "Y", "Z" >>, << "K", "A", "M" >> }, { 7 }, { 27 }, "none")
AnyDriver        == Driver("any", {}, {}, {}, "dict")

RegistrySample ==
    { << >>,
      << Multical21Driver, QwaterDriver >>,
      << HeatDriver, XyzDriver, AnyDriver >>,
      << XyzFailing, AnyDriver >>,
      << AnyDriver, XyzDriver >>,
      << VersionDriver, XyzFailing >> }

TgInit ==
    /\ \/ tgInput \in BytesInputs \cup ShortBytesInputs
       \/ tgInput \in StrInputs
    /\ raw_data = << >>
    /\ header = NoObject
    /\ tgPc = "new"
    /\ lastOp = "none"
    /\ decryptRet = FALSE
    /\ nDecrypts = 0
    /\ ivOut = << >>
    /\ decryptOk = FALSE
    /\ parsed_data = EmptyDict
    /\ drivers \in RegistrySample
    /\ callOut = NoCall

\* Telegram(raw_data)
Construct ==
    /\ tgPc = "new"
    /\ raw_data' = InitRawData(tgInput)
    /\ header' = InitHeader(InitRawData(tgInput))
    /\ tgPc' = "constructed"
    /\ lastOp' = "init"
    /\ parsed_data' = EmptyDict
    /\ UNCHANGED << tgInput, decryptRet, nDecrypts, ivOut, decryptOk, drivers, callOut,
                    codecVars, crcVars, frameVars, extVars >>

\* telegram.decrypt(key); as in Meter.process_telegram the callers decrypt
\* before they read the telegram
Decrypt ==
    /\ tgPc = "constructed"
    /\ lastOp \in { "init", "decrypt" }
    /\ nDecrypts < MaxDecrypts
    /\ \E key \in KeySample, crypto_available \in BOOLEAN :
          LET r == TelegramDecrypt(raw_data, header, key, crypto_available)
          IN  /\ raw_data' = r.raw_data
              /\ decryptRet' = r.ret
              /\ ivOut' = IF ~header.isNone /\ header.is_encrypted /\ crypto_available
                             /\ key # << >> /\ KeyBytes(key).ok
                          THEN generate_iv(header.manufacturer, header.meter_id)
                          ELSE << >>
              /\ decryptOk' = (decryptOk \/ (r.ret /\ ~header.isNone /\ header.is_encrypted))
    /\ nDecrypts' = nDecrypts + 1
    /\ lastOp' = "decrypt"
    /\ UNCHANGED << tgInput, header, tgPc, parsed_data, drivers, callOut,
                    codecVars, crcVars, frameVars, extVars >>

\* the telegram's own state, which no observer call changes
tgObjVars == << tgInput, raw_data, header, tgPc, decryptRet, nDecrypts, ivOut,
                decryptOk, drivers >>

\* The observer calls below read raw_data, header and drivers only and
\* change none of them, so each is taken from the state the construction
\* or the last decrypt left: a chain of them reaches no further result.
Readable == tgPc = "constructed" /\ lastOp \in { "init", "decrypt" }

\* telegram.parse_data()
ParseData ==
    /\ Readable
    /\ parsed_data' = TelegramParseData(raw_data, header)
    /\ callOut' = [ isNone |-> FALSE, driver |-> None,
                    records |-> TelegramParseData(raw_data, header).blocks ]
    /\ lastOp' = "parse_data"
    /\ UNCHANGED << tgObjVars, codecVars, crcVars, frameVars, extVars >>

\* auto_driver.find_driver(telegram)
FindDriver ==
    /\ Readable
    /\ callOut' = [ isNone |-> find_driver(drivers, header) = None,
                    driver |-> find_driver(drivers, header), records |-> << >> ]
    /\ lastOp' = "find_driver"
    /\ UNCHANGED << tgObjVars, parsed_data, codecVars, crcVars, frameVars, extVars >>

\* driver.process_telegram(telegram) on one registered driver
DriverProcess ==
    /\ Readable
    /\ \E n \in 1..Len(drivers) :
          callOut' = DriverProcessTelegram(drivers[n], raw_data, header)
    /\ lastOp' = "driver_process"
    /\ UNCHANGED << tgObjVars, parsed_data, codecVars, crcVars, frameVars, extVars >>

\* auto_driver.process_telegram(telegram)
AutoProcess ==
    /\ Readable
    /\ callOut' = AutoProcessTelegram(drivers, raw_data, header)
    /\ lastOp' = "auto_process"
    /\ UNCHANGED << tgObjVars, parsed_data, codecVars, crcVars, frameVars, extVars >>

\* MBusProtocol.analyze_telegram(telegram.raw_data)
Analyze ==
    /\ Readable
    /\ callOut' = [ isNone |-> FALSE, driver |-> None,
                    records |-> analyze_telegram(raw_data).records ]
    /\ lastOp' = "analyze"
    /\ UNCHANGED << tgObjVars, parsed_data, codecVars, crcVars, frameVars, extVars >>

Next ==
    \/ Construct
    \/ Decrypt
    \/ ParseData
    \/ FindDriver
    \/ DriverProcess
    \/ AutoProcess
    \/ Analyze

Init == TgInit /\ CodecIdle /\ CrcIdle /\ FrameIdle /\ ExtIdle

Spec == Init /\ [][Next]_vars

(***************************************************************************)
(* SpecRecords: parse_data_records' while loop over bounded payloads, one  *)
(* pass of the loop per step.                                              *)
(***************************************************************************)
MaxPayload == 5

\* payload bytes: DIFs without and with extension bit (00, 01, 0B, 0F,
\* 81), DIFE/VIFE bytes with and without extension bit (95, 7A); each also
\* serves as VIF, length prefix and value byte
ByteSample == { 0, 1, 11, 15, 129, 149, 122 }

\* longer payloads: a three-byte DIFE chain, DIF 1F, a wide value, a
\* string with a two-byte body, a VIFE chain cut by the end of data
ExtraPayloads ==
    { << 129, 149, 149, 122, 19, 7 >>,
      << 31, 19, 1, 19, 7 >>,
      << 4, 19, 1, 2, 3, 4, 1, 19, 7 >>,
      << 11, 19, 2, 65, 66, 1, 19, 7 >>,
      << 1, 19, 7, 0, 255, 128 >>,
      << 1, 19, 7, 4, 19, 1, 2 >> }

PayloadInputs ==
    UNION { SeqsOfLen(ByteSample, n) : n \in 0..MaxPayload } \cup ExtraPayloads

RecInit ==
    /\ prData \in PayloadInputs
    /\ prI = 0
    /\ prRecords = << >>
    /\ prPc = "loop"

\* one pass of `while i < len(data)`
ParsePass ==
    /\ prPc = "loop"
    /\ prI < Len(prData)
    /\ LET r == ParseRecordAt(prData, prI)
       IN  /\ prI' = r.next
           /\ prRecords' = IF r.emit THEN Append(prRecords, r.record) ELSE prRecords
           /\ prPc' = IF r.emit THEN "loop" ELSE "returned"
    /\ UNCHANGED << prData, codecVars, crcVars, frameVars, tgVars, toolVars >>

\* the loop condition fails (or data is empty): return records
ParseReturn ==
    /\ prPc = "loop"
    /\ prI >= Len(prData)
    /\ prPc' = "returned"
    /\ UNCHANGED << prData, prI, prRecords, codecVars, crcVars, frameVars, tgVars,
                    toolVars >>

NextRecords == ParsePass \/ ParseReturn

InitRecords == RecInit /\ CodecIdle /\ CrcIdle /\ FrameIdle /\ TgIdle /\ ToolIdle

SpecRecords == InitRecords /\ [][NextRecords]_vars

\* the same loop where every enabled pass is eventually taken (no step of
\* the loop waits on anything), over the shorter payloads
MaxFairPayload == 3

InitRecordsFair == InitRecords /\ Len(prData) <= MaxFairPayload

SpecRecordsFair == InitRecordsFair /\ [][NextRecords]_vars /\ WF_vars(NextRecords)

(***************************************************************************)
(* SpecCompare: _compare_data over bounded record lists, one pass of each  *)
(* outer for loop per step.                                                *)
(***************************************************************************)
MaxRecs == 2

\* records that agree in the whole key and differ in value (a number, a
\* different number, a string), and records that differ in storage or tariff
RecordSample ==
    { ExtractedRecord("Volume", NumValue(1), "m3", 0, 0),
      ExtractedRecord("Volume", NumValue(3), "m3", 0, 0),
      ExtractedRecord("Volume", OtherValue(1), "m3", 0, 0),
      ExtractedRecord("Volume", NumValue(1), "m3", 1, 0),
      ExtractedRecord("Volume", NumValue(1), "m3", 0, 1) }

\* longer lists: one record for each of the four outcomes, and records that
\* differ in description or unit only
ExtraRecordLists ==
    { << ExtractedRecord("Volume", NumValue(1), "m3", 0, 0),
         ExtractedRecord("Volume", NumValue(1), "m3", 1, 0),
         ExtractedRecord("Energy", NumValue(1), "m3", 0, 0) >>,
      << ExtractedRecord("Volume", NumValue(1), "m3", 0, 0),
         ExtractedRecord("Volume", NumValue(3), "m3", 1, 0),
         ExtractedRecord("Volume", NumValue(1), "l", 0, 0) >> }

RecordLists ==
    UNION { SeqsOfLen(RecordSample, n) : n \in 0..MaxRecs } \cup ExtraRecordLists

CmpInit ==
    /\ records1 \in RecordLists
    /\ records2 \in RecordLists
    /\ cmpEncrypted \in { << FALSE, FALSE >>, << TRUE, FALSE >>, << FALSE, TRUE >> }
    /\ cmpI = 0
    /\ same_fields = << >>
    /\ different_fields = << >>
    /\ only_in_first = << >>
    /\ only_in_second = << >>
    /\ cmpPc = "start"

cmpOthers == << codecVars, crcVars, frameVars, tgVars, recVars, keyVars, lateVars >>

\* an encrypted telegram: return can_compare False
CompareRefuse ==
    /\ cmpPc = "start"
    /\ cmpEncrypted[1] \/ cmpEncrypted[2]
    /\ cmpPc' = "refused"
    /\ UNCHANGED << records1, records2, cmpEncrypted, cmpI, same_fields,
                    different_fields, only_in_first, only_in_second, cmpOthers >>

\* both plaintext: extract the records and enter the first loop
CompareBegin ==
    /\ cmpPc = "start"
    /\ ~(cmpEncrypted[1] \/ cmpEncrypted[2])
    /\ cmpPc' = "first"
    /\ UNCHANGED << records1, records2, cmpEncrypted, cmpI, same_fields,
                    different_fields, only_in_first, only_in_second, cmpOthers >>

\* one pass of `for record1 in records1`
CompareFirstPass ==
    /\ cmpPc = "first"
    /\ cmpI < Len(records1)
    /\ LET record1 == records1[cmpI + 1]
           j       == FirstMatch(record1, records2)
       IN  /\ same_fields' =
                 IF j # 0 /\ record1.value = records2[j].value
                 THEN Append(same_fields, FieldEntry(record1)) ELSE same_fields
           /\ different_fields' =
                 IF j # 0 /\ record1.value # records2[j].value
                 THEN Append(different_fields, DiffEntry(record1, records2[j]))
                 ELSE different_fields
           /\ only_in_first' =
                 IF j = 0 THEN Append(only_in_first, FieldEntry(record1))
                 ELSE only_in_first
    /\ cmpI' = cmpI + 1
    /\ UNCHANGED << records1, records2, cmpEncrypted, only_in_second, cmpPc, cmpOthers >>

\* the first loop is exhausted: enter `for record2 in records2`
CompareTurn ==
    /\ cmpPc = "first"
    /\ cmpI >= Len(records1)
    /\ cmpPc' = "second"
    /\ cmpI' = 0
    /\ UNCHANGED << records1, records2, cmpEncrypted, same_fields, different_fields,
                    only_in_first, only_in_second, cmpOthers >>

\* one pass of `for record2 in records2`
CompareSecondPass ==
    /\ cmpPc = "second"
    /\ cmpI < Len(records2)
    /\ LET record2 == records2[cmpI + 1]
       IN  only_in_second' =
               IF \E k \in 1..Len(records1) : KeyEqual(records1[k], record2)
               THEN only_in_second
               ELSE Append(only_in_second, FieldEntry(record2))
    /\ cmpI' = cmpI + 1
    /\ UNCHANGED << records1, records2, cmpEncrypted, same_fields, different_fields,
                    only_in_first, cmpPc, cmpOthers >>

\* the second loop is exhausted: return the four lists
CompareReturn ==
    /\ cmpPc = "second"
    /\ cmpI >= Len(records2)
    /\ cmpPc' = "returned"
    /\ UNCHANGED << records1, records2, cmpEncrypted, cmpI, same_fields,
                    different_fields, only_in_first, only_in_second, cmpOthers >>

NextCompare ==
    \/ CompareRefuse
    \/ CompareBegin
    \/ CompareFirstPass
    \/ CompareTurn
    \/ CompareSecondPass
    \/ CompareReturn

InitCompare == CmpInit /\ CodecIdle /\ CrcIdle /\ FrameIdle /\ TgIdle /\ RecIdle /\ KeyIdle
                   /\ LateIdle

SpecCompare == InitCompare /\ [][NextCompare]_vars

(***************************************************************************)
(* SpecKeys: a KeyDiscovery object and a sequence of add_key calls.        *)
(***************************************************************************)
\* keys are tried up to this many characters short of and beyond KeyLen
MaxKeyPad == 1

Rep(c, n) == [ i \in 1..n |-> c ]

\* a digit, a letter outside the alphabet, the space
KeyCharSample == { "0", "g", " " }

\* keys written in groups, in upper and in lower case, keys with one
\* foreign character, a key that is KeyLen characters long only while its
\* spaces are counted, a key that ends in U+FB00
ExtraKeys ==
    { Rep("0", 16) \o << " " >> \o Rep("B", 16),
      << " " >> \o Rep("c", KeyLen) \o << " ", " " >>,
      Rep("0", KeyLen - 1) \o << "G" >>,
      Rep("0", KeyLen - 2) \o << "x", "0" >>,
      Rep("1", KeyLen - 1) \o << " " >>,
      Rep("1", KeyLen - 1) \o << "-" >>,
      Rep("0", KeyLen - 2) \o << LigatureFF >> }

KeyInputs ==
    { Rep(c, n) : c \in KeyCharSample,
                  n \in { 0 } \cup ((KeyLen - MaxKeyPad)..(KeyLen + MaxKeyPad)) }
        \cup ExtraKeys

ManufacturerArgs == { None, "KAM" }

KeyInit ==
    /\ known_keys = {}
    /\ akKey = << >>
    /\ akRet = FALSE

\* key_discovery.add_key(key, manufacturer = ...)
AddKey ==
    \E key \in KeyInputs, manufacturer \in ManufacturerArgs :
        LET r == add_key(known_keys, key, None, manufacturer)
        IN  /\ known_keys' = r.known_keys
            /\ akKey' = key
            /\ akRet' = r.ret
            /\ UNCHANGED << codecVars, crcVars, frameVars, tgVars, recVars, cmpVars,
                            lateVars >>

NextKeys == AddKey

InitKeys == KeyInit /\ CodecIdle /\ CrcIdle /\ FrameIdle /\ TgIdle /\ RecIdle /\ CmpIdle
                /\ LateIdle

SpecKeys == InitKeys /\ [][NextKeys]_vars

(***************************************************************************)
(* SpecValue: MBusDataRecord(dif, vif, value) over bounded value bytes.    *)
(***************************************************************************)
MaxValueLen == 4

\* the DIFs _parse_value has a branch for, except the 48-bit and 64-bit
\* integers, and one it has no branch for (8)
DifSample == { 0, 1, 2, 3, 4, 5, 8, 16, 17, 18, 19, STRING_VARIABLE, VARIABLE_LENGTH }

\* a volume VIF, VIF.DATE, VIF.DATETIME
VifSample == { 19, 168, 176 }

\* BCD digit pairs, a pair with a nibble above 9, the sign bit, all ones
ValueByteSample == { 0, 18, 120, 128, 255 }

\* the BCD-8 value 12345678 as the wire carries it, one with invalid
\* nibbles, a value longer than any fixed width here
ExtraValues ==
    { << 120, 86, 52, 18 >>,
      << 18, 52, 86, 250 >>,
      << 1, 2, 3, 4, 5, 128 >> }

\* the values whose numbers stay within 32 bits: a 24-bit integer of at
\* most three bytes, a BCD number that int(hex, 16) reads below 2^31
Evaluable(dif, value) ==
    /\ dif = 3 => Len(value) <= 3
    /\ dif \in 16..19 => Len(value) <= 3 \/ (Len(value) = 4 /\ value[1] < 128)

ValueInputs ==
    UNION { SeqsOfLen(ValueByteSample, n) : n \in 0..MaxValueLen } \cup ExtraValues

ValInit ==
    /\ pvDif \in DifSample
    /\ pvVif \in VifSample
    /\ pvValue \in ValueInputs
    /\ Evaluable(pvDif, pvValue)
    /\ parsed_value = NoValue
    /\ pvPc = "new"

\* MBusDataRecord.__init__: the call of self._parse_value()
ParseValue ==
    /\ pvPc = "new"
    /\ parsed_value' = parse_value(pvDif, pvVif, pvValue)
    /\ pvPc' = "parsed"
    /\ UNCHANGED << pvDif, pvVif, pvValue, codecVars, crcVars, frameVars, tgVars,
                    recVars, cmpVars, keyVars, histVars, bookVars >>

NextValue == ParseValue

InitValue == ValInit /\ CodecIdle /\ CrcIdle /\ FrameIdle /\ TgIdle /\ RecIdle
                 /\ CmpIdle /\ KeyIdle /\ HistIdle /\ BookIdle

SpecValue == InitValue /\ [][NextValue]_vars

(***************************************************************************)
(* Specification SpecHistory: one object, a MeterInfo or a                 *)
(* TelegramAccessPoint with one registered meter, is fed frames while the  *)
(* clock advances.                                                         *)
(***************************************************************************)
MaxUpdates == 6
MaxTelegrams == 101

\* seconds that pass between two calls
DtSample == {2, 10}

\* the meter the frames come from, as the caller names it and as a frame
\* carries it
MeterIdArg == << "0", "A", "0", "B", "0", "C", "0", "D" >>
MeterIdBytes == << 13, 12, 11, 10 >>
OtherIdBytes == << 1, 0, 0, 0 >>

\* the k-th wireless frame of a meter: L, C, M, A, version, type, one record
\* whose value is k; every second frame has the encryption bits of C set
WirelessFrame(first, id, k) ==
    << first, IF k % 2 = 0 THEN 64 ELSE 68, 45, 44 >> \o id \o << 27, 7, 1, 19, k >>

\* the k-th frame as the access point reads it: first byte 0x44 and a CI byte
\* before the record
AccessFrame(id, k) ==
    << 68, IF k % 2 = 0 THEN 64 ELSE 68, 45, 44 >> \o id \o << 27, 7, 114, 1, 19, k >>

TooShortFrame == << 68, 64, 45 >>

\* long frames: well formed, with two different length bytes, and shorter
\* than its length byte says
LongFrames ==
    { << 104, 4, 4, 104, 8, 1, 2, 3, 4, 114 >>,
      << 104, 4, 5, 104, 8, 1, 2, 3, 4, 114 >>,
      << 104, 5, 5, 104, 8, 1, 2, 3, 4, 114 >> }

MiFrames(k) ==
    { WirelessFrame(30, MeterIdBytes, k), WirelessFrame(30, OtherIdBytes, k),
      TooShortFrame }

ApFrames(k) ==
    { AccessFrame(MeterIdBytes, k), AccessFrame(OtherIdBytes, k), TooShortFrame,
      WirelessFrame(30, MeterIdBytes, k) } \cup LongFrames

MeterInfoFields ==
    [ meter_id |-> miMeterId, header |-> miHeader, last_seen |-> last_seen,
      telegram_count |-> telegram_count,
      transmission_interval |-> transmission_interval,
      last_telegrams |-> last_telegrams, data_records |-> miRecords ]

AccessPointFields ==
    [ meters |-> apMeters, last |-> apLast, history |-> telegram_history,
      analysis |-> apAnalysis, ret |-> apRet ]

HistInit ==
    /\ hsTarget \in {"MeterInfo", "AccessPoint"}
    /\ now = 0 /\ nCalls = 0 /\ hsFrame = << >> /\ arrivals = << >>
    /\ miMeterId = IF hsTarget = "MeterInfo" THEN MeterIdArg ELSE << >>
    /\ miHeader = NoObject /\ last_seen = 0
    /\ telegram_count = 0 /\ transmission_interval = NoInterval
    /\ last_telegrams = << >> /\ miRecords = << >>
    /\ apMeters = IF hsTarget = "AccessPoint" THEN {JoinHex(Reversed(MeterIdBytes))}
                  ELSE {}
    /\ apLast = {} /\ telegram_history = << >>
    /\ apAnalysis = NoAnalysis /\ apRet = None

histOthers == << codecVars, crcVars, frameVars, tgVars, recVars, cmpVars, keyVars,
                 valVars, bookVars >>

\* meter_info.update_from_telegram(frame)
MeterInfoUpdate ==
    /\ hsTarget = "MeterInfo"
    /\ nCalls < MaxUpdates
    /\ \E dt \in DtSample, frame \in MiFrames(telegram_count + 1) :
         \E mi \in { UpdateFromTelegram(MeterInfoFields, frame, now + dt) } :
             /\ now' = now + dt
             /\ hsFrame' = frame
             /\ miHeader' = mi.header
             /\ last_seen' = mi.last_seen
             /\ telegram_count' = mi.telegram_count
             /\ transmission_interval' = mi.transmission_interval
             /\ last_telegrams' = mi.last_telegrams
             /\ miRecords' = mi.data_records
             /\ arrivals' = IF mi.telegram_count # telegram_count
                            THEN Append(arrivals, TelegramEntry(JoinHex(frame), now + dt))
                            ELSE arrivals
    /\ nCalls' = nCalls + 1
    /\ UNCHANGED << hsTarget, miMeterId, apVars, histOthers >>

\* access_point.process_telegram(frame); the clock is read, and has moved on,
\* only in a call that gets past the two early returns; the meter that was
\* never registered sends one frame
AccessPointProcessTelegram ==
    /\ hsTarget = "AccessPoint"
    /\ Len(arrivals) < MaxTelegrams
    /\ \E frame \in ApFrames(Len(arrivals) + 1) :
         \E ap \in { AccessPointProcess(AccessPointFields, frame, now + 1) } :
             /\ ap.ret = "result" /\ ap.analysis.id \notin apMeters
                => \A it \in apLast : it.id \in apMeters
             /\ hsFrame' = frame
             /\ apLast' = ap.last
             /\ telegram_history' = ap.history
             /\ apAnalysis' = ap.analysis
             /\ apRet' = ap.ret
             /\ now' = IF ap.ret = "result" THEN now + 1 ELSE now
             /\ arrivals' = IF ap.ret = "result" /\ ap.analysis.id \in apMeters
                            THEN Append(arrivals, TelegramEntry(JoinHex(frame), now + 1))
                            ELSE arrivals
    /\ UNCHANGED << hsTarget, nCalls, apMeters, miVars, histOthers >>

NextHistory == MeterInfoUpdate \/ AccessPointProcessTelegram

InitHistory == HistInit /\ CodecIdle /\ CrcIdle /\ FrameIdle /\ TgIdle /\ RecIdle
                   /\ CmpIdle /\ KeyIdle /\ ValIdle /\ BookIdle

SpecHistory == InitHistory /\ [][NextHistory]_vars

(***************************************************************************)
(* Specification SpecMatch: match_key_to_meter and load_keys calls on one  *)
(* KeyDiscovery.                                                           *)
(***************************************************************************)
MeterSample == { << "0", "1" >>, << "0", "2" >>, << "0", "3" >> }

\* keys as the caller writes them
KeyArgs == { << "a", "b" >>, << "A", " ", "B" >>, << "c", "d" >> }

MeterItem(meter, key) == [ meter |-> meter, key |-> key ]

\* key files: unreadable, empty, and files written by save_keys
KeyFiles ==
    { [ readable |-> FALSE, known_keys |-> {}, meter_keys |-> << >> ],
      [ readable |-> TRUE, known_keys |-> {}, meter_keys |-> << >> ],
      [ readable |-> TRUE,
        known_keys |-> { [ key |-> << "A", "B" >>, description |-> None,
                           manufacturer |-> None ] },
        meter_keys |-> << MeterItem(<< "0", "2" >>, << "A", "B" >>),
                          MeterItem(<< "0", "1" >>, << "A", "B" >>) >> ],
      [ readable |-> TRUE, known_keys |-> {},
        meter_keys |-> << MeterItem(<< "0", "1" >>, << "C", "D" >>),
                          MeterItem(<< "0", "2" >>, << "a", "b" >>) >> ] }

matchOthers == << codecVars, crcVars, frameVars, tgVars, recVars, cmpVars,
                  valVars, histVars, meterVars >>

\* discovery.match_key_to_meter(meter_id, key)
MatchKeyToMeter ==
    \E meter_id \in MeterSample, key \in KeyArgs :
        LET r == match_key_to_meter(meter_keys, key_matches, meter_id, key)
        IN  /\ meter_keys' = r.meter_keys
            /\ key_matches' = r.key_matches
            /\ UNCHANGED << keyVars, matchOthers >>

\* discovery.load_keys(filename)
LoadKeys ==
    \E file \in KeyFiles :
        LET r == load_keys(known_keys, meter_keys, key_matches, file)
        IN  /\ known_keys' = r.known_keys
            /\ meter_keys' = r.meter_keys
            /\ key_matches' = r.key_matches
            /\ UNCHANGED << akKey, akRet, matchOthers >>

NextMatch == MatchKeyToMeter \/ LoadKeys

InitMatch == KeyInit /\ MatchIdle /\ CodecIdle /\ CrcIdle /\ FrameIdle /\ TgIdle
                 /\ RecIdle /\ CmpIdle /\ ValIdle /\ HistIdle /\ MeterIdle

SpecMatch == InitMatch /\ [][NextMatch]_vars

(***************************************************************************)
(* Specification SpecMeter: process_telegram calls on one Meter.           *)
(***************************************************************************)
MaxMeterCalls == 2

\* Meter.id as the configuration writes it
MeterIdSample == { << "0", "1", "0", "2", "0", "3", "0", "4" >> }

\* Meter.driver after _load_driver: nothing, a driver, or an AutoDriver
MeterDriverSample ==
    { NoObject, LoadedDriver(AnyDriver), LoadedDriver(XyzFailing),
      LoadedDriver(HeatDriver), LoadedAuto(<< XyzFailing, AnyDriver >>) }

\* frames of the meter and of another one, plain and encrypted, with
\* payloads of whole and broken block lengths, and frames without a header
MeterFrames ==
    UNION { { [kind |-> "bytes", val |-> Header10(68, c, a) \o p] :
                p \in { << 1, 19, 7 >>, Pattern(BlockSize, 11),
                        Pattern(BlockSize + 1, 11) } } :
            c \in { 68, 64 }, a \in AFieldSample }
        \cup { [kind |-> "bytes", val |-> << 68, 68, 58 >>],
               [kind |-> "str", val |-> << "z", "z" >>],
               [kind |-> "str", val |-> JoinHex(Header10(68, 64, << 4, 3, 2, 1 >>))] }

MeterFields ==
    [ driver |-> mtDriver, id |-> mtId, key |-> mtKey, last_reading |-> last_reading,
      last_telegram |-> last_telegram, last_update |-> last_update ]

MeterInit ==
    /\ mtDriver \in MeterDriverSample
    /\ mtId \in MeterIdSample
    /\ mtKey \in { << >>, Key1 }
    /\ mtNow = 0 /\ mtCalls = 0 /\ mtFrame = << >> /\ mtRet = FALSE
    /\ last_reading = NoCall /\ last_telegram = NoObject /\ last_update = 0

\* meter.process_telegram(telegram_data)
MeterProcess ==
    /\ mtCalls < MaxMeterCalls
    /\ \E telegram_data \in MeterFrames, crypto_available \in BOOLEAN :
         \E r \in { MeterProcessTelegram(MeterFields, telegram_data, mtNow + 1,
                                           crypto_available) } :
             /\ mtFrame' = telegram_data
             /\ mtRet' = r.ret
             /\ last_reading' = r.last_reading
             /\ last_telegram' = r.last_telegram
             /\ last_update' = r.last_update
    /\ mtNow' = mtNow + 1
    /\ mtCalls' = mtCalls + 1
    /\ UNCHANGED << mtDriver, mtId, mtKey, codecVars, crcVars, frameVars, tgVars,
                    recVars, cmpVars, keyVars, valVars, histVars, matchVars >>

NextMeter == MeterProcess

InitMeter == MeterInit /\ CodecIdle /\ CrcIdle /\ FrameIdle /\ TgIdle /\ RecIdle
                 /\ CmpIdle /\ KeyIdle /\ ValIdle /\ HistIdle /\ MatchIdle

SpecMeter == InitMeter /\ [][NextMeter]_vars

(***************************************************************************)
(* Claims about the codec primitives                                       *)
(***************************************************************************)
LettersInRange(text) ==
    \A i \in 1..Len(text) : Ord(text[i]) - 64 \in 1..31

C7_EncodeRejectsOutOfRange ==
    (codecPc = "encoded" /\ Len(mfctText) = 3
       /\ \E i \in 1..3 : Ord(mfctText[i]) - 64 \notin 0..31)
        => ~mfctEnc.ok

\* C8: feeding calculate_crc its own result as one more byte gives 0, and
\* the accumulator is a byte after every processed byte.
C8_CrcSelfCheck ==
    /\ crcAcc \in 0..255
    /\ crcPc = "closed" => crcAcc = 0

C8_Witness == crcPc = "closed" /\ crcLen = MaxCrcLen + 1 /\ crcAcc = 0

(***************************************************************************)
(* Claims about MBusFrame.parse                                            *)
(***************************************************************************)
IsShortForm(data) == Len(data) = 5 /\ data[1] = 16 /\ data[5] = 22

\* C3: every 5-byte short frame 0x10 C A CRC 0x16 whose CRC byte is the
\* checksum over C and A alone is accepted as a SHORT frame with control C
\* and address A; in particular 10 40 05 45 16 is.
C3_ShortFrameAccepted ==
    (framePc = "parsed" /\ IsShortForm(frameIn)
       /\ (frameIn[4] = calculate_crc(<< frameIn[2], frameIn[3] >>)
           \/ frameIn = << 16, 64, 5, 69, 22 >>))
        => /\ ~frameOut.isNone
           /\ frameOut.frame_type = SHORT
           /\ frameOut.control = frameIn[2]
           /\ frameOut.address = frameIn[3]

\* the long-frame defects C4 names, read off the input bytes
LengthsDiffer(data)   == data[2] # data[3]
BadSecondStart(data)  == data[4] # 104
EndByteMissing(data)  == Len(data) < data[2] + 6 \/ data[data[2] + 6] # 22
ChecksumWrong(data)   ==
    Len(data) >= data[2] + 5
      /\ calculate_crc(Slice(data, 4, 4 + data[2])) # data[data[2] + 5]

\* C4: an input starting with 0x68 yields no frame whenever the two length
\* bytes differ, the second start byte is not 0x68, the end byte 0x16 is
\* missing, or the checksum over C, A, CI and data is not the checksum byte.
C4_LongFrameRejected ==
    (framePc = "parsed" /\ Len(frameIn) >= 4 /\ frameIn[1] = 104
       /\ (LengthsDiffer(frameIn) \/ BadSecondStart(frameIn)
           \/ EndByteMissing(frameIn) \/ ChecksumWrong(frameIn)))
        => frameOut.isNone

(***************************************************************************)
(* Claims about the Telegram facade and the security layer                 *)
(***************************************************************************)
FromKamHex == tgPc = "constructed" /\ tgInput.kind = "str" /\ tgInput.val = KamHex

\* C1 (as stated): the Telegram built from the scenario frame has the
\* manufacturer "KAM" and the identification "12353648".
C1_KamHeader ==
    FromKamHex
        => /\ ~header.isNone
           /\ header.manufacturer = << "K", "A", "M" >>
           /\ header.meter_id = << "1", "2", "3", "5", "3", "6", "4", "8" >>

\* C1 (amended): the Telegram built from the scenario frame has the
\* manufacturer "QDS" (its M-field bytes 93 44 are the little-endian value
\* 0x4493) and the identification "12353648" (bytes 4..7 reversed).
C1_QdsHeader ==
    FromKamHex
        => /\ ~header.isNone
           /\ header.manufacturer = << "Q", "D", "S" >>
           /\ header.meter_id = << "1", "2", "3", "5", "3", "6", "4", "8" >>

C1_Witness ==
    /\ FromKamHex
    /\ Len(raw_data) = 60
    /\ ~header.isNone
    /\ header.manufacturer = << "Q", "D", "S" >>

\* C2: the scenario frame is plaintext, so its header is not flagged
\* encrypted after construction.
C2_KamNotEncrypted ==
    FromKamHex => (~header.isNone /\ ~header.is_encrypted)

C9_IvLayout ==
    (lastOp = "decrypt" /\ ivOut # << >>)
        => LET id_le == Reversed(unhexlify(header.meter_id).val)
           IN  /\ Len(ivOut) = 16
               /\ \A i \in 1..3 : ivOut[i] = Ord(header.manufacturer[i])
               /\ \A i \in 1..4 : ivOut[3 + i] = id_le[i]
               /\ ivOut[8] = header.version
               /\ ivOut[9] = header.meter_type
               /\ \A i \in 10..16 : ivOut[i] = 0

\* C10: decrypt changes neither bytes 0..9 of the raw buffer nor the
\* header; on a telegram not flagged encrypted it returns success and
\* leaves the buffer as it was; when it succeeds on an encrypted telegram
\* the buffer becomes its first ten bytes followed by the plaintext.
C10_DecryptFrame ==
    [][ nDecrypts' = nDecrypts + 1 =>
          /\ header' = header
          /\ Slice(raw_data', 0, 10) = Slice(raw_data, 0, 10)
          /\ (header.isNone \/ ~header.is_encrypted)
                => (decryptRet' /\ raw_data' = raw_data)
          /\ (~header.isNone /\ header.is_encrypted /\ decryptRet')
                => \E key \in KeySample :
                      LET plain == decrypt_aes_cbc(SliceFrom(raw_data, 10), key,
                                       header.manufacturer, header.meter_id, TRUE)
                      IN  plain.ok /\ raw_data' = Slice(raw_data, 0, 10) \o plain.val
      ]_vars

C10_Witness ==
    /\ lastOp = "decrypt"
    /\ nDecrypts = 1
    /\ decryptRet
    /\ ~header.isNone
    /\ header.is_encrypted
    /\ Len(raw_data) > 10
    /\ raw_data # InitRawData(tgInput)
    /\ Slice(raw_data, 0, 10) = Slice(InitRawData(tgInput), 0, 10)

\* C11: a decrypt call on an encrypted telegram that fails leaves the raw
\* buffer exactly as it was, and the call does fail when no usable key was
\* given (none, or not 16 bytes of hex: no IV is ever built) or when the
\* cipher rejects the payload (its length is no multiple of the block size).
C11_DecryptAllOrNothing ==
    [][ (nDecrypts' = nDecrypts + 1 /\ ~header.isNone /\ header.is_encrypted) =>
          /\ ~decryptRet' => raw_data' = raw_data
          /\ (ivOut' = << >> \/ (Len(raw_data) - 10) % BlockSize # 0) => ~decryptRet'
      ]_vars

C11_Witness ==
    /\ lastOp = "decrypt"
    /\ nDecrypts = 1
    /\ ~decryptRet
    /\ ~header.isNone
    /\ header.is_encrypted
    /\ ivOut # << >>
    /\ Len(raw_data) > 10
    /\ (Len(raw_data) - 10) % BlockSize # 0
    /\ raw_data = InitRawData(tgInput)

(***************************************************************************)
(* Claims about parse_data_records                                         *)
(***************************************************************************)
\* sum over k of digit(bytes[k+1]) * base^k
RECURSIVE PlacedSum(_, _, _, _)
PlacedSum(bytes, digit(_), base, k) ==
    IF k >= Len(bytes) THEN 0
    ELSE digit(bytes[k + 1]) + base * PlacedSum(bytes, digit, base, k + 1)

StorageBits(dife) == dife % 16
TariffBits(dife)  == (dife \div 16) % 4

RECURSIVE PowerOf(_, _)
PowerOf(b, n) == IF n = 0 THEN 1 ELSE b * PowerOf(b, n - 1)

\* C16: a record whose DIFE chain has n bytes has the DIFEs' low nibbles
\* placed at storage offsets 4k and their bits 4..5 at tariff offsets 2k,
\* so storage < 2^(4n) and tariff < 2^(2n); with no DIFE storage, tariff
\* and subunit are 0.
C16_DifeAccumulation ==
    \A j \in 1..Len(prRecords) :
        LET r == prRecords[j]
            n == Len(r.dife_data)
        IN  /\ r.storage_number = PlacedSum(r.dife_data, StorageBits, 16, 0)
            /\ r.tariff = PlacedSum(r.dife_data, TariffBits, 4, 0)
            /\ r.storage_number \in 0..(PowerOf(2, 4 * n) - 1)
            /\ r.tariff \in 0..(PowerOf(2, 2 * n) - 1)
            /\ n = 0 => (r.storage_number = 0 /\ r.tariff = 0 /\ r.subunit = 0)

C16_Witness ==
    /\ prPc = "returned"
    /\ Len(prRecords) = 1
    /\ prRecords[1].dife_data = << 149, 149, 122 >>
    /\ prRecords[1].storage_number = 2645
    /\ prRecords[1].tariff = 53

\* the cursor of the loop pass about to run
PassPending == prPc = "loop" /\ prI < Len(prData)

\* the payload ends inside the DIFE chain of the record starting at i
EndsInDifeChain(data, i) ==
    /\ At(data, i) >= 128
    /\ \A j \in (i + 1)..(Len(data) - 1) : At(data, j) >= 128

\* the record starting at i has its DIF, DIFEs, VIF and VIFEs in the
\* payload, but fewer value bytes than its data field announces
ValueTruncated(data, i) ==
    LET i2 == IF At(data, i) >= 128 THEN ChainEnd(data, i + 1) ELSE i + 1
        i4 == IF At(data, i2) >= 128 THEN ChainEnd(data, i2 + 1) ELSE i2 + 1
        df == At(data, i) % 16
        announced == IF df \in { STRING_VARIABLE, VARIABLE_LENGTH }
                     THEN (IF i4 < Len(data) THEN At(data, i4) + 1 ELSE 1)
                     ELSE get_data_length(df)
    IN  i2 < Len(data) /\ i4 + announced > Len(data)

\* C17: a loop pass that finds the payload ending inside a DIFE chain, or
\* before all announced value bytes, appends no record and ends the
\* parsing; every pass leaves the records decoded before it in place and
\* in order.
C17_TruncationStops ==
    [][ PassPending =>
          /\ (EndsInDifeChain(prData, prI) \/ ValueTruncated(prData, prI))
                => (prRecords' = prRecords /\ prPc' = "returned")
          /\ Len(prRecords') >= Len(prRecords)
          /\ SubSeq(prRecords', 1, Len(prRecords)) = prRecords
      ]_vars

C17_Witness ==
    /\ prPc = "returned"
    /\ prData = << 1, 19, 7, 4, 19, 1, 2 >>
    /\ prI < Len(prData)
    /\ Len(prRecords) = 1
    /\ prRecords[1].value = << 7 >>

\* the payload ends while the last VIF/VIFE byte of the record starting at
\* i still has its extension bit set
EndsInVifeChain(data, i) ==
    LET i2 == IF At(data, i) >= 128 THEN ChainEnd(data, i + 1) ELSE i + 1
    IN  /\ i2 < Len(data)
        /\ \A j \in i2..(Len(data) - 1) : At(data, j) >= 128

\* C18: a loop pass that finds the payload ending inside a VIFE chain
\* appends no record and ends the parsing.
C18_VifeTruncationStops ==
    [][ (PassPending /\ EndsInVifeChain(prData, prI))
          => (prRecords' = prRecords /\ prPc' = "returned") ]_vars

\* C19: a loop pass that meets DIF 0x0F or 0x1F decodes nothing further:
\* the cursor ends at the end of the payload and at most one record is
\* appended, whose value is the whole remainder of the payload.
C19_ManufacturerDataEndsParsing ==
    [][ (PassPending /\ At(prData, prI) \in { 15, 31 })
          => /\ prI' >= Len(prData)
             /\ \/ prRecords' = prRecords
                \/ /\ Len(prRecords') = Len(prRecords) + 1
                   /\ prRecords'[Len(prRecords')].value = SliceFrom(prData, prI + 1)
      ]_vars

\* C20: a record with a variable-length data field has as its value the n
\* bytes after the length prefix n, and the cursor moves past prefix and
\* value (n + 1 bytes).
C20_VariableLengthValue ==
    [][ (PassPending /\ Len(prRecords') = Len(prRecords) + 1
           /\ prRecords'[Len(prRecords')].dif \in { STRING_VARIABLE, VARIABLE_LENGTH })
          => LET rec   == prRecords'[Len(prRecords')]
                 start == prI + 1 + Len(rec.dife_data) + 1 + Len(rec.vife_data)
                 n     == At(prData, start)
             IN  /\ rec.value = Slice(prData, start + 1, start + 1 + n)
                 /\ prI' = start + n + 1
      ]_vars

(***************************************************************************)
(* Claims about reading a telegram: records and driver dispatch            *)
(***************************************************************************)
\* C12: while the header is flagged encrypted and no decrypt call has
\* succeeded, parse_data, DriverBase.process_telegram,
\* AutoDriver.process_telegram and analyze_telegram yield no records.
C12_NoRecordsWhileEncrypted ==
    (/\ tgPc = "constructed"
     /\ ~header.isNone
     /\ header.is_encrypted
     /\ ~decryptOk
     /\ lastOp \in { "parse_data", "driver_process", "auto_process", "analyze" }
     /\ ~callOut.isNone)
        => callOut.records = << >>

\* every non-empty constraint of driver d matches header h
Accepts(d, h) ==
    /\ d.manufacturer_codes = {} \/ h.manufacturer \in d.manufacturer_codes
    /\ d.meter_types = {} \/ h.meter_type \in d.meter_types
    /\ d.meter_versions = {} \/ h.version \in d.meter_versions

\* the name of the first driver, in registration order, accepting h
FirstAccepting(registry, h) ==
    LET accepting == { n \in 1..Len(registry) : Accepts(registry[n], h) }
    IN  IF accepting = {} THEN None
        ELSE registry[CHOOSE n \in accepting : \A k \in accepting : n <= k].name

\* C13: find_driver returns the first driver in registration order whose
\* non-empty constraints all match the header, and a reading returned by
\* AutoDriver.process_telegram was produced by that same driver.
C13_FirstAcceptingDriverWins ==
    (tgPc = "constructed" /\ ~header.isNone)
        => /\ lastOp = "find_driver"
                => callOut.driver = FirstAccepting(drivers, header)
           /\ (lastOp = "auto_process" /\ ~callOut.isNone)
                => callOut.driver = FirstAccepting(drivers, header)

(***************************************************************************)
(* Claims about the tools                                                  *)
(***************************************************************************)
\* the key a record is compared by
KeyOf(r) == << r.description, r.unit, r.storage, r.tariff >>

HasKeyIn(r, records) == \E j \in 1..Len(records) : KeyOf(records[j]) = KeyOf(r)

EntriesOf(records) == [ i \in 1..Len(records) |-> FieldEntry(records[i]) ]

\* C14: _compare_data on two plaintext telegrams places every record of
\* the first telegram in exactly one of same_fields, different_fields and
\* only_in_first (the ones with no key-equal record in the second go to
\* only_in_first, the others to same_fields or different_fields), and
\* only_in_second holds exactly the records of the second telegram with no
\* key-equal record in the first; the key is (description, unit, storage,
\* tariff).
C14_ComparePartition ==
    LET FirstOnly(r)  == ~HasKeyIn(r, records2)
        SecondOnly(r) == ~HasKeyIn(r, records1)
        visited == IF cmpPc = "first" THEN cmpI ELSE Len(records1)
    IN  /\ cmpPc \in { "first", "second", "returned" }
            => /\ Len(same_fields) + Len(different_fields) + Len(only_in_first) = visited
               /\ only_in_first
                     = EntriesOf(SelectSeq(SubSeq(records1, 1, visited), FirstOnly))
        /\ cmpPc = "returned"
            => only_in_second = EntriesOf(SelectSeq(records2, SecondOnly))

C14_Witness ==
    /\ cmpPc = "returned"
    /\ Len(same_fields) = 1
    /\ Len(different_fields) = 1
    /\ Len(only_in_first) = 1
    /\ Len(only_in_second) = 1

\* key, with its spaces removed, is exactly 32 hexadecimal characters
WellFormedKey(key) ==
    LET k == SelectSeq(key, LAMBDA c : c # " ")
    IN  Len(k) = 32 /\ \A i \in 1..Len(k) : IsHexDigit(k[i])

\* C15: an add_key call returns True if and only if the key, with its
\* spaces removed, is exactly 32 hexadecimal characters; a call that
\* returns False leaves known_keys as it was, and a call that returns True
\* leaves the key among the known keys.
C15_AddKeyValidates ==
    [][ /\ akRet' = WellFormedKey(akKey')
        /\ ~akRet' => known_keys' = known_keys
        /\ akRet' => \E e \in known_keys' :
                        /\ Len(e.key) = 32
                        /\ LET k == SelectSeq(akKey', LAMBDA c : c # " ")
                           IN  \A i \in 1..32 : HexVal(e.key[i]) = HexVal(k[i]) ]_vars

(***************************************************************************)
(* Claims about decoded record values                                      *)
(***************************************************************************)
\* the BCD DIFs and their digit counts
BcdDigits(dif) == CASE dif = 16 -> 2 [] dif = 17 -> 4 [] dif = 18 -> 6 [] dif = 19 -> 8
                    [] OTHER -> 0

\* the two decimal digits a BCD byte carries, a nibble above 9 counted as 9
BcdPair(b) ==
    (IF b % 16 > 9 THEN 9 ELSE b % 16) + 10 * (IF b \div 16 > 9 THEN 9 ELSE b \div 16)

\* C21: a BCD value is decoded least-significant byte first, a nibble
\* above 9 counting as 9: the BCD-8 value bytes 78 56 34 12 decode to
\* 12345678, and a k-digit BCD field decodes into 0 .. 10^k - 1.
C21_BcdLittleEndian ==
    (pvPc = "parsed" /\ BcdDigits(pvDif) # 0 /\ pvVif = 19 /\ pvValue # << >>)
        => /\ parsed_value.kind = "int"
           /\ parsed_value.n >= 0
           /\ parsed_value.n <= PowerOf(10, BcdDigits(pvDif)) - 1
           /\ 2 * Len(pvValue) = BcdDigits(pvDif)
                  => parsed_value.n = PlacedSum(pvValue, BcdPair, 100, 0)
           /\ (pvDif = 19 /\ pvValue = << 120, 86, 52, 18 >>)
                  => parsed_value.n = 12345678

\* C22: a 24-bit integer record decodes its three bytes as a little-endian
\* two's-complement number: the parsed value lies in -2^23 .. 2^23 - 1 and
\* is the unsigned little-endian value, minus 2^24 when bit 23 is set.
C22_Int24TwosComplement ==
    (pvPc = "parsed" /\ pvDif = 3 /\ pvVif = 19 /\ Len(pvValue) = 3)
        => LET u == pvValue[1] + 256 * pvValue[2] + 65536 * pvValue[3]
           IN  /\ parsed_value.kind = "int"
               /\ parsed_value.n >= -8388608
               /\ parsed_value.n <= 8388607
               /\ parsed_value.n = IF pvValue[3] >= 128 THEN u - 16777216 ELSE u

(***************************************************************************)
(* Claims about termination and bookkeeping                                *)
(***************************************************************************)
\* C23: parse_data_records terminates on every payload: a pass of the loop
\* that does not stop the parse moves the cursor forward, the cursor never
\* passes the end of the payload, there are never more records than payload
\* bytes, and the call returns.
C23_ParseTerminates ==
    /\ [][(prPc = "loop" /\ prPc' = "loop") => prI' > prI]_vars
    /\ [](prI <= Len(prData) /\ Len(prRecords) <= Len(prData))
    /\ <>(prPc = "returned")

C23_Witness ==
    /\ prPc = "returned"
    /\ prI = Len(prData)
    /\ Len(prData) = 3
    /\ Len(prRecords) = 1

(***************************************************************************)
(* C24: after any sequence of accepted frames for one meter, the history   *)
(* kept for it (MeterInfo.last_telegrams, at most 5 entries;               *)
(* TelegramAccessPoint.telegram_history, at most max_history entries)      *)
(* never exceeds its capacity and is exactly the most recent               *)
(* min(n, capacity) accepted frames in arrival order.                      *)
(***************************************************************************)
LastOf(list, capacity) ==
    SubSeq(list, Len(list) - Min(Len(list), capacity) + 1, Len(list))

C24_HistoryIsRecentWindow ==
    /\ hsTarget = "MeterInfo"
        => /\ Len(last_telegrams) <= SummaryCapacity
           /\ last_telegrams = LastOf(arrivals, SummaryCapacity)
    /\ hsTarget = "AccessPoint"
        => /\ Len(telegram_history) <= max_history
           /\ telegram_history = LastOf(arrivals, max_history)

C24_Witness ==
    /\ hsTarget = "AccessPoint"
    /\ Len(arrivals) = max_history + 1
    /\ Len(telegram_history) = max_history
    /\ telegram_history[1] = arrivals[2]

(***************************************************************************)
(* C25: in MeterInfo.update_from_telegram an accepted frame increments     *)
(* telegram_count by one; transmission_interval stays unset on the first   *)
(* accepted frame, becomes the elapsed time on the second and              *)
(* 0.8 * old + 0.2 * elapsed on every later one; a rejected frame (no      *)
(* header, or another identification) changes neither.                     *)
(***************************************************************************)
FrameAccepted(frame, meter_id) ==
    /\ Len(frame) >= 10
    /\ StrLower(JoinHex(Reversed(Slice(frame, 4, 8)))) = StrLower(meter_id)

\* a / b = c / d
SameFraction(x, y) == x.num * y.den = y.num * x.den

C25_CountAndInterval ==
    [][ hsTarget = "MeterInfo" =>
          LET elapsed == now' - last_seen
              old     == transmission_interval
              new     == transmission_interval'
          IN  IF FrameAccepted(hsFrame', miMeterId)
              THEN /\ telegram_count' = telegram_count + 1
                   /\ telegram_count = 0 => new.isNone
                   /\ telegram_count = 1
                        => ~new.isNone /\ SameFraction(new, Seconds(elapsed))
                   /\ telegram_count > 1
                        => /\ ~new.isNone
                           /\ 5 * new.num * old.den
                                = (4 * old.num + elapsed * old.den) * new.den
              ELSE /\ telegram_count' = telegram_count
                   /\ new = old ]_vars

C25_Witness ==
    /\ hsTarget = "MeterInfo"
    /\ telegram_count = 3
    /\ nCalls = 5
    /\ transmission_interval = [ isNone |-> FALSE, num |-> 52, den |-> 5 ]

(***************************************************************************)
(* C26: in the report MBusProtocol.analyze_telegram returns, valid is true *)
(* exactly when no error is recorded; a well-formed 0x68 long frame is     *)
(* reported valid.                                                         *)
(***************************************************************************)
C26_ValidIffNoError ==
    (hsTarget = "AccessPoint" /\ hsFrame # << >>)
        => /\ apAnalysis = analyze_telegram(hsFrame)
           /\ apAnalysis.valid <=> (apAnalysis.error = "")

(***************************************************************************)
(* C27: the payload of a telegram is decrypted at most once: once          *)
(* decrypt(key) has succeeded on an encrypted telegram, a further          *)
(* decrypt(key) with the same key on the same object leaves raw_data       *)
(* unchanged.                                                              *)
(***************************************************************************)
\* decrypt(key) is what turned the constructed telegram into the present one
DecryptedWith(key) ==
    LET first == TelegramDecrypt(InitRawData(tgInput), header, key, TRUE)
    IN  first.ret /\ first.raw_data = raw_data

C27_DecryptOnce ==
    [][ (decryptOk /\ nDecrypts = 1 /\ nDecrypts' = 2)
          => \A key \in KeySample, crypto_available \in BOOLEAN :
               ( /\ DecryptedWith(key)
                 /\ decryptRet' = TelegramDecrypt(raw_data, header, key, crypto_available).ret
                 /\ raw_data' = TelegramDecrypt(raw_data, header, key, crypto_available).raw_data )
                   => raw_data' = raw_data ]_vars

(***************************************************************************)
(* C30: when the PKCS padding of the decrypted data is invalid,            *)
(* decrypt_aes_cbc returns the plain AES-CBC decryption of the whole       *)
(* ciphertext under the synthesized IV, first block included, as long as   *)
(* the ciphertext.                                                         *)
(***************************************************************************)
C30_FallbackIsPlainCbc ==
    [][ (nDecrypts' = nDecrypts + 1 /\ ~header.isNone /\ header.is_encrypted
           /\ decryptRet')
          => \A key \in KeySample :
               LET data   == SliceFrom(raw_data, 10)
                   result == decrypt_aes_cbc(data, key, header.manufacturer,
                                             header.meter_id, TRUE)
                   iv     == generate_iv(header.manufacturer, header.meter_id)
                   plain  == CbcDecrypt(KeyBytes(key).val, iv, data)
               IN  ( /\ result.ok
                     /\ raw_data' = Slice(raw_data, 0, 10) \o result.val
                     /\ ~Unpad(plain.out).ok )
                       => /\ Len(result.val) = Len(data)
                          /\ result.val = plain.out ]_vars

(***************************************************************************)
(* C28: after any sequence of match_key_to_meter and load_keys calls,      *)
(* key_matches is the exact inverse of meter_keys: meter m is listed under *)
(* key k if and only if meter_keys[m] = k, and no key lists a meter twice. *)
(***************************************************************************)
ListedUnder(m, k) ==
    LET listed == MatchesOf(key_matches, k)
    IN  \E i \in 1..Len(listed) : listed[i] = m

C28_MatchesInvertKeys ==
    /\ \A e \in key_matches :
         /\ \A i \in 1..Len(e.meters) : MeterItem(e.meters[i], e.key) \in meter_keys
         /\ \A i, j \in 1..Len(e.meters) : e.meters[i] = e.meters[j] => i = j
    /\ \A it \in meter_keys : ListedUnder(it.meter, it.key)

(***************************************************************************)
(* C29: when Meter.process_telegram returns False, last_reading,           *)
(* last_telegram and last_update are unchanged; when it returns True all   *)
(* three are set from the telegram just processed: the reading the driver  *)
(* built from it, the telegram object (decrypted when it was encrypted)    *)
(* and the time of the call.                                               *)
(***************************************************************************)
C29_MeterFrame ==
    [][ mtCalls' = mtCalls + 1 =>
          LET raw   == InitRawData(mtFrame')
              hdr   == InitHeader(raw)
              plain == IF hdr.is_encrypted
                       THEN TelegramDecrypt(raw, hdr, mtKey, TRUE).raw_data
                       ELSE raw
          IN  IF mtRet'
              THEN /\ ~hdr.isNone
                   /\ last_telegram' = TelegramObject(plain, hdr)
                   /\ last_reading' = MeterDriverCall(mtDriver, plain, hdr)
                   /\ ~last_reading'.isNone
                   /\ last_update' = mtNow'
              ELSE /\ last_reading' = last_reading
                   /\ last_telegram' = last_telegram
                   /\ last_update' = last_update ]_vars

C29_Witness ==
    /\ mtCalls = 2
    /\ ~mtRet
    /\ ~last_telegram.isNone
    /\ last_telegram.header.is_encrypted
    /\ last_telegram.raw_data # InitRawData(mtFrame)
    /\ last_update = 1
    /\ ~InitHeader(InitRawData(mtFrame)).isNone
    /\ StrLower(InitHeader(InitRawData(mtFrame)).meter_id) = StrLower(mtId)

====
